---- MODULE Spec2Model ----
(***************************************************************************)
(* Model of the Ludo game engine (internal/server/game/engine.go) with the *)
(* models and constants it uses.  Every engine method runs with the engine *)
(* lock held from entry to return, so each one is one atomic action; the   *)
(* AI goroutine and the turn-timer callback are separate tasks whose       *)
(* locked sections are the atomic steps.                                   *)
(***************************************************************************)
EXTENDS Integers, Sequences, FiniteSets, Bags, TLC

VARIABLES
    e,          \* the Engine: game (room, board, history), rollCount, turnTimer
    goroutines, \* bag of running tasks: AI turns and fired timer callbacks
    events,     \* callbacks fired by the last engine call, in order
    ret,        \* the last call and what it returned
    rooms,      \* the Room objects created so far, in the order of creation
    registry,   \* the Room objects that Manager.rooms holds, by their place in rooms
    pending,    \* the calls in progress, by caller
    now         \* the reading of the clock, time.Now().UnixNano()

managerVars == <<rooms, registry, pending, now>>

vars == <<e, goroutines, events, ret, rooms, registry, pending, now>>

(***************************** constants **********************************)
MinPlayers == 2
TokensPerPlayer == 4
DiceMin == 1
DiceMax == 6
RollToStart == 6
RollForExtraTurn == 6
MaxConsecutiveSix == 3

ColorRed == "red"
ColorBlue == "blue"
ColorGreen == "green"
ColorYellow == "yellow"
Colors == {ColorRed, ColorBlue, ColorGreen, ColorYellow}

StateWaiting == "waiting"
StatePlaying == "playing"
StateFinished == "finished"

ErrInvalidMove == "INVALID_MOVE"
ErrNotYourTurn == "NOT_YOUR_TURN"
ErrInvalidTokenId == "invalid token id"
ErrAlreadyStarted == "game already started"
ErrNotEnoughPlayers == "not enough players"
NoError == "nil"

StartingPositions ==
    [c \in Colors |-> CASE c = ColorRed -> 0
                        [] c = ColorBlue -> 13
                        [] c = ColorGreen -> 26
                        [] OTHER -> 39]

SafePositions == {0, 8, 13, 21, 26, 34, 39, 47}

HomeStretchStart ==
    [c \in Colors |-> CASE c = ColorRed -> 50
                        [] c = ColorBlue -> 11
                        [] c = ColorGreen -> 24
                        [] OTHER -> 37]

(****************************** bounds ************************************)
\* successful RollDice and MoveToken calls in a game played from construction
MaxCalls == 4
\* successful RollDice and MoveToken calls played on from an endgame position
MaxEndCalls == 4
\* tasks (AI turns, fired timer callbacks) alive at the same time
MaxGoroutines == 1
\* distinct values the model lets a draw of rand.Intn return
MaxDraws == 3

(****************************** models ************************************)
\* A *Token is <<seat, id>> (seat counted from 0), the nil pointer is <<>>.
NilToken == <<>>
\* e.turnTimer: <<id>> while armed for that player and not yet fired.
NoTimer == <<>>

TokenIds == 0 .. (TokensPerPlayer - 1)

NewToken == [Position |-> -1, IsHome |-> FALSE, IsSafe |-> TRUE]

NewPlayer(id, color) ==
    [ID |-> id, Color |-> color, IsAI |-> FALSE, AILevel |-> "", IsReady |-> FALSE]

NewAIPlayer(color, level) ==
    [NewPlayer(0, color) EXCEPT !.IsAI = TRUE, !.AILevel = level, !.IsReady = TRUE]

NewBoardCells == [i \in 0 .. 51 |-> NilToken]

NewBoardHomeStretches == [c \in Colors |-> [i \in 0 .. 5 |-> NilToken]]

IsSafeCell(pos) == pos \in SafePositions

NoCall == [op |-> "none", value |-> 0, extra |-> FALSE, err |-> NoError]

\* What a call returned: the error, and for RollDice the value and the
\* extra-turn flag (0 and FALSE for every other call, as for a failed roll).
Returned(op, value, extra, err) ==
    [op |-> op, value |-> value, extra |-> extra, err |-> err]

\* The engine with its tasks and observations as one value w, so that the
\* methods below are functions from w to w.
NewEngine(players) ==
    [State |-> StateWaiting,
     Players |-> players,
     Tokens |-> [s \in 1 .. Len(players) |-> [t \in TokenIds |-> NewToken]],
     ConsecutiveSix |-> [s \in 1 .. Len(players) |-> 0],
     TokensAtHome |-> [s \in 1 .. Len(players) |-> 0],
     CurrentTurn |-> 0,
     LastDice |-> 0,
     Cells |-> NewBoardCells,
     HomeStretches |-> NewBoardHomeStretches,
     TurnHistory |-> <<>>,
     Winner |-> -1,
     Rankings |-> <<>>,
     rollCount |-> [id \in {players[s].ID : s \in 1 .. Len(players)} |-> 0],
     turnTimer |-> NoTimer,
     goroutines |-> EmptyBag,
     events |-> <<>>,
     ret |-> NoCall]

\* The engine part of w.
EngineOf(w) ==
    [State |-> w.State, Players |-> w.Players, Tokens |-> w.Tokens,
     ConsecutiveSix |-> w.ConsecutiveSix, TokensAtHome |-> w.TokensAtHome,
     CurrentTurn |-> w.CurrentTurn, LastDice |-> w.LastDice,
     Cells |-> w.Cells, HomeStretches |-> w.HomeStretches,
     TurnHistory |-> w.TurnHistory, Winner |-> w.Winner,
     Rankings |-> w.Rankings, rollCount |-> w.rollCount,
     turnTimer |-> w.turnTimer]

\* The current state as one value; a call starts with no event fired.
World ==
    [State |-> e.State, Players |-> e.Players, Tokens |-> e.Tokens,
     ConsecutiveSix |-> e.ConsecutiveSix, TokensAtHome |-> e.TokensAtHome,
     CurrentTurn |-> e.CurrentTurn, LastDice |-> e.LastDice,
     Cells |-> e.Cells, HomeStretches |-> e.HomeStretches,
     TurnHistory |-> e.TurnHistory, Winner |-> e.Winner,
     Rankings |-> e.Rankings, rollCount |-> e.rollCount,
     turnTimer |-> e.turnTimer,
     goroutines |-> goroutines, events |-> <<>>, ret |-> ret]

currentPlayer(w) == w.Players[w.CurrentTurn + 1]

Token(w, ptr) == w.Tokens[ptr[1] + 1][ptr[2]]

TokenColor(w, ptr) == w.Players[ptr[1] + 1].Color

Fire(w, ev) == [w EXCEPT !.events = Append(@, ev)]

Spawn(w, task) == [w EXCEPT !.goroutines = @ (+) SetToBag({task})]

AITask(seat) == [kind |-> "ai", seat |-> seat, pc |-> "roll", id |-> -1,
                 dice |-> 0, extra |-> FALSE, tok |-> -1]

TimeoutTask(id) == [kind |-> "timeout", seat |-> -1, pc |-> "fired", id |-> id,
                    dice |-> 0, extra |-> FALSE, tok |-> -1]

(****************************** engine ************************************)
startTurnTimer(w, playerID) == [w EXCEPT !.turnTimer = <<playerID>>]

\* nextTurn leaving the turn where it is: C6 must notice.
nextTurn_Stay(w) ==
    LET turn == w.CurrentTurn
        w1 == [w EXCEPT !.CurrentTurn = turn]
        w2 == Fire(w1, <<"TurnChanged", currentPlayer(w1).ID>>)
    IN IF currentPlayer(w1).IsAI
       THEN Spawn(w2, AITask(turn))
       ELSE startTurnTimer(w2, currentPlayer(w1).ID)

nextTurn(w) ==
    LET turn == (w.CurrentTurn + 1) % Len(w.Players)
        w1 == [w EXCEPT !.CurrentTurn = turn]
        w2 == Fire(w1, <<"TurnChanged", currentPlayer(w1).ID>>)
    IN IF currentPlayer(w1).IsAI
       THEN Spawn(w2, AITask(turn))
       ELSE startTurnTimer(w2, currentPlayer(w1).ID)

calculateNewPosition(token, diceValue, color) ==
    IF token.Position = -1 THEN StartingPositions[color]
    ELSE LET newPos == token.Position + diceValue
             homeEntry == HomeStretchStart[color]
         IN IF token.Position < homeEntry /\ newPos >= homeEntry
            THEN 52 + (newPos - homeEntry)
            ELSE IF newPos >= 52 /\ token.Position < 52
                 THEN newPos % 52
                 ELSE newPos

\* canMoveToken without the cap at 57: C2 must notice.
canMoveToken_NoCap(w, token, diceValue, color) ==
    IF token.IsHome THEN FALSE
    ELSE IF token.Position = -1 /\ diceValue # RollToStart THEN FALSE
    ELSE LET newPos == calculateNewPosition(token, diceValue, color)
         IN IF newPos >= 52
            THEN newPos - 52 > 5 \/ w.HomeStretches[color][newPos - 52] = NilToken
            ELSE ~ (/\ w.Cells[newPos] # NilToken
                    /\ TokenColor(w, w.Cells[newPos]) = color)

canMoveToken(w, token, diceValue, color) ==
    IF token.IsHome THEN FALSE
    ELSE IF token.Position = -1 /\ diceValue # RollToStart THEN FALSE
    ELSE LET newPos == calculateNewPosition(token, diceValue, color)
         IN IF newPos > 57 THEN FALSE
            ELSE IF newPos >= 52
                 THEN w.HomeStretches[color][newPos - 52] = NilToken
                 ELSE ~ (/\ w.Cells[newPos] # NilToken
                         /\ TokenColor(w, w.Cells[newPos]) = color)

hasValidMove(w, seat, diceValue) ==
    \E t \in TokenIds :
        canMoveToken(w, w.Tokens[seat + 1][t], diceValue, w.Players[seat + 1].Color)

\* moveTokenToPosition taking the last home-stretch cell for home: C4 must
\* notice.
moveTokenToPosition_HomeAtFive(w, ptr, newPos, color) ==
    LET token == Token(w, ptr)
        w1 == IF token.Position >= 0 /\ token.Position < 52
              THEN [w EXCEPT !.Cells[token.Position] = NilToken]
              ELSE IF token.Position >= 52
                   THEN [w EXCEPT !.HomeStretches[color][token.Position - 52] = NilToken]
                   ELSE w
        w2 == [w1 EXCEPT !.Tokens[ptr[1] + 1][ptr[2]].Position = newPos]
    IN IF newPos >= 52
       THEN IF newPos - 52 >= 5
            THEN [w2 EXCEPT !.Tokens[ptr[1] + 1][ptr[2]].IsHome = TRUE]
            ELSE [w2 EXCEPT !.HomeStretches[color][newPos - 52] = ptr]
       ELSE [w2 EXCEPT !.Cells[newPos] = ptr,
                       !.Tokens[ptr[1] + 1][ptr[2]].IsSafe = IsSafeCell(newPos)]

moveTokenToPosition(w, ptr, newPos, color) ==
    LET token == Token(w, ptr)
        w1 == IF token.Position >= 0 /\ token.Position < 52
              THEN [w EXCEPT !.Cells[token.Position] = NilToken]
              ELSE IF token.Position >= 52
                   THEN [w EXCEPT !.HomeStretches[color][token.Position - 52] = NilToken]
                   ELSE w
        w2 == [w1 EXCEPT !.Tokens[ptr[1] + 1][ptr[2]].Position = newPos]
    IN IF newPos >= 52
       THEN IF newPos - 52 >= 6
            THEN [w2 EXCEPT !.Tokens[ptr[1] + 1][ptr[2]].IsHome = TRUE]
            ELSE [w2 EXCEPT !.HomeStretches[color][newPos - 52] = ptr]
       ELSE [w2 EXCEPT !.Cells[newPos] = ptr,
                       !.Tokens[ptr[1] + 1][ptr[2]].IsSafe = IsSafeCell(newPos)]

\* Returns the engine after the capture and the captured token (or nil).
checkCapture(w, pos, capturerSeat) ==
    IF pos < 0 \/ pos >= 52 THEN [w |-> w, captured |-> NilToken]
    ELSE IF w.Cells[pos] = NilToken \/ IsSafeCell(pos)
         THEN [w |-> w, captured |-> NilToken]
    ELSE LET victim == w.Cells[pos]
         IN IF TokenColor(w, victim) = w.Players[capturerSeat + 1].Color
            THEN [w |-> w, captured |-> NilToken]
            ELSE [w |-> [w EXCEPT !.Tokens[victim[1] + 1][victim[2]] = NewToken,
                                  !.Cells[pos] = NilToken],
                  captured |-> victim]

checkWin(w, seat) == \A t \in TokenIds : w.Tokens[seat + 1][t].IsHome

endGame(w, winnerSeat) ==
    LET others == SelectSeq([s \in 1 .. Len(w.Players) |-> s - 1],
                            LAMBDA s : w.Players[s + 1].ID # w.Players[winnerSeat + 1].ID)
        rankings == <<winnerSeat>> \o others
    IN Fire([w EXCEPT !.Winner = winnerSeat, !.State = StateFinished,
                      !.Rankings = rankings],
            <<"GameOver", w.Players[winnerSeat + 1].ID, rankings>>)

\* Start(): turn is the seat drawn by rand.Intn(len(Players)).
\* Start without the count of the players: C23 must notice.
Start_AnyCount(w, turn) ==
    IF w.State # StateWaiting
    THEN [w EXCEPT !.ret = Returned("Start", 0, FALSE, ErrAlreadyStarted)]
    ELSE LET w1 == [w EXCEPT !.CurrentTurn = turn, !.State = StatePlaying]
             w2 == Fire(w1, <<"TurnChanged", currentPlayer(w1).ID>>)
             w3 == IF currentPlayer(w1).IsAI
                   THEN Spawn(w2, AITask(turn))
                   ELSE startTurnTimer(w2, currentPlayer(w1).ID)
         IN [w3 EXCEPT !.ret = Returned("Start", 0, FALSE, NoError)]

Start(w, turn) ==
    IF w.State # StateWaiting
    THEN [w EXCEPT !.ret = Returned("Start", 0, FALSE, ErrAlreadyStarted)]
    ELSE IF Len(w.Players) < MinPlayers
    THEN [w EXCEPT !.ret = Returned("Start", 0, FALSE, ErrNotEnoughPlayers)]
    ELSE LET w1 == [w EXCEPT !.CurrentTurn = turn, !.State = StatePlaying]
             w2 == Fire(w1, <<"TurnChanged", currentPlayer(w1).ID>>)
             w3 == IF currentPlayer(w1).IsAI
                   THEN Spawn(w2, AITask(turn))
                   ELSE startTurnTimer(w2, currentPlayer(w1).ID)
         IN [w3 EXCEPT !.ret = Returned("Start", 0, FALSE, NoError)]

\* RollDice without the rigged rolls: C7 must notice.
RollDice_NoRig(w, playerID, r) ==
    IF currentPlayer(w).ID # playerID
    THEN [w EXCEPT !.ret = Returned("RollDice", 0, FALSE, ErrNotYourTurn)]
    ELSE
    LET seat == w.CurrentTurn
        rollNumber == w.rollCount[playerID] + 1
        diceValue == r + DiceMin
        w1 == [w EXCEPT !.rollCount[playerID] = rollNumber, !.LastDice = diceValue]
        isSix == diceValue = RollForExtraTurn
        w2 == IF isSix THEN [w1 EXCEPT !.ConsecutiveSix[seat + 1] = @ + 1]
              ELSE [w1 EXCEPT !.ConsecutiveSix[seat + 1] = 0]
    IN IF isSix /\ w2.ConsecutiveSix[seat + 1] >= MaxConsecutiveSix
       THEN LET w3 == nextTurn([w2 EXCEPT !.ConsecutiveSix[seat + 1] = 0])
                w4 == Fire(w3, <<"DiceRolled", playerID, diceValue, FALSE>>)
            IN [w4 EXCEPT !.ret = Returned("RollDice", diceValue, FALSE, NoError)]
       ELSE LET extraTurn == isSix
                canMove == hasValidMove(w2, seat, diceValue)
                w3 == IF ~ canMove /\ ~ extraTurn THEN nextTurn(w2) ELSE w2
                w4 == Fire(w3, <<"DiceRolled", playerID, diceValue, extraTurn>>)
            IN [w4 EXCEPT !.ret = Returned("RollDice", diceValue, extraTurn, NoError)]

\* RollDice losing the turn only after the third six: C8 must notice.
RollDice_LateForfeit(w, playerID, r) ==
    IF currentPlayer(w).ID # playerID
    THEN [w EXCEPT !.ret = Returned("RollDice", 0, FALSE, ErrNotYourTurn)]
    ELSE
    LET seat == w.CurrentTurn
        rollNumber == w.rollCount[playerID] + 1
        diceValue == IF rollNumber = 1 \/ rollNumber % 5 = 0
                     THEN 6 ELSE r + DiceMin
        w1 == [w EXCEPT !.rollCount[playerID] = rollNumber, !.LastDice = diceValue]
        isSix == diceValue = RollForExtraTurn
        w2 == IF isSix THEN [w1 EXCEPT !.ConsecutiveSix[seat + 1] = @ + 1]
              ELSE [w1 EXCEPT !.ConsecutiveSix[seat + 1] = 0]
    IN IF isSix /\ w2.ConsecutiveSix[seat + 1] > MaxConsecutiveSix
       THEN LET w3 == nextTurn([w2 EXCEPT !.ConsecutiveSix[seat + 1] = 0])
                w4 == Fire(w3, <<"DiceRolled", playerID, diceValue, FALSE>>)
            IN [w4 EXCEPT !.ret = Returned("RollDice", diceValue, FALSE, NoError)]
       ELSE LET extraTurn == isSix
                canMove == hasValidMove(w2, seat, diceValue)
                w3 == IF ~ canMove /\ ~ extraTurn THEN nextTurn(w2) ELSE w2
                w4 == Fire(w3, <<"DiceRolled", playerID, diceValue, extraTurn>>)
            IN [w4 EXCEPT !.ret = Returned("RollDice", diceValue, extraTurn, NoError)]

\* RollDice passing the turn on every roll without a legal move: C9 must
\* notice.
RollDice_NoMoveNoTurn(w, playerID, r) ==
    IF currentPlayer(w).ID # playerID
    THEN [w EXCEPT !.ret = Returned("RollDice", 0, FALSE, ErrNotYourTurn)]
    ELSE
    LET seat == w.CurrentTurn
        rollNumber == w.rollCount[playerID] + 1
        diceValue == IF rollNumber = 1 \/ rollNumber % 5 = 0
                     THEN 6 ELSE r + DiceMin
        w1 == [w EXCEPT !.rollCount[playerID] = rollNumber, !.LastDice = diceValue]
        isSix == diceValue = RollForExtraTurn
        w2 == IF isSix THEN [w1 EXCEPT !.ConsecutiveSix[seat + 1] = @ + 1]
              ELSE [w1 EXCEPT !.ConsecutiveSix[seat + 1] = 0]
    IN IF isSix /\ w2.ConsecutiveSix[seat + 1] >= MaxConsecutiveSix
       THEN LET w3 == nextTurn([w2 EXCEPT !.ConsecutiveSix[seat + 1] = 0])
                w4 == Fire(w3, <<"DiceRolled", playerID, diceValue, FALSE>>)
            IN [w4 EXCEPT !.ret = Returned("RollDice", diceValue, FALSE, NoError)]
       ELSE LET extraTurn == isSix
                canMove == hasValidMove(w2, seat, diceValue)
                w3 == IF ~ canMove THEN nextTurn(w2) ELSE w2
                w4 == Fire(w3, <<"DiceRolled", playerID, diceValue, extraTurn>>)
            IN [w4 EXCEPT !.ret = Returned("RollDice", diceValue, extraTurn, NoError)]

\* RollDice counting the roll before it checks the turn: C12 must notice.
RollDice_CountsFirst(w, playerID, r) ==
    IF currentPlayer(w).ID # playerID
    THEN [w EXCEPT !.rollCount[playerID] = @ + 1,
                   !.ret = Returned("RollDice", 0, FALSE, ErrNotYourTurn)]
    ELSE
    LET seat == w.CurrentTurn
        rollNumber == w.rollCount[playerID] + 1
        diceValue == IF rollNumber = 1 \/ rollNumber % 5 = 0
                     THEN 6 ELSE r + DiceMin
        w1 == [w EXCEPT !.rollCount[playerID] = rollNumber, !.LastDice = diceValue]
        isSix == diceValue = RollForExtraTurn
        w2 == IF isSix THEN [w1 EXCEPT !.ConsecutiveSix[seat + 1] = @ + 1]
              ELSE [w1 EXCEPT !.ConsecutiveSix[seat + 1] = 0]
    IN IF isSix /\ w2.ConsecutiveSix[seat + 1] >= MaxConsecutiveSix
       THEN LET w3 == nextTurn([w2 EXCEPT !.ConsecutiveSix[seat + 1] = 0])
                w4 == Fire(w3, <<"DiceRolled", playerID, diceValue, FALSE>>)
            IN [w4 EXCEPT !.ret = Returned("RollDice", diceValue, FALSE, NoError)]
       ELSE LET extraTurn == isSix
                canMove == hasValidMove(w2, seat, diceValue)
                w3 == IF ~ canMove /\ ~ extraTurn THEN nextTurn(w2) ELSE w2
                w4 == Fire(w3, <<"DiceRolled", playerID, diceValue, extraTurn>>)
            IN [w4 EXCEPT !.ret = Returned("RollDice", diceValue, extraTurn, NoError)]

\* RollDice(playerID): r is the value drawn by rand.Intn(DiceMax).
RollDice(w, playerID, r) ==
    IF currentPlayer(w).ID # playerID
    THEN [w EXCEPT !.ret = Returned("RollDice", 0, FALSE, ErrNotYourTurn)]
    ELSE
    LET seat == w.CurrentTurn
        rollNumber == w.rollCount[playerID] + 1
        diceValue == IF rollNumber = 1 \/ rollNumber % 5 = 0
                     THEN 6 ELSE r + DiceMin
        w1 == [w EXCEPT !.rollCount[playerID] = rollNumber, !.LastDice = diceValue]
        isSix == diceValue = RollForExtraTurn
        w2 == IF isSix THEN [w1 EXCEPT !.ConsecutiveSix[seat + 1] = @ + 1]
              ELSE [w1 EXCEPT !.ConsecutiveSix[seat + 1] = 0]
    IN IF isSix /\ w2.ConsecutiveSix[seat + 1] >= MaxConsecutiveSix
       THEN LET w3 == nextTurn([w2 EXCEPT !.ConsecutiveSix[seat + 1] = 0])
                w4 == Fire(w3, <<"DiceRolled", playerID, diceValue, FALSE>>)
            IN [w4 EXCEPT !.ret = Returned("RollDice", diceValue, FALSE, NoError)]
       ELSE LET extraTurn == isSix
                canMove == hasValidMove(w2, seat, diceValue)
                w3 == IF ~ canMove /\ ~ extraTurn THEN nextTurn(w2) ELSE w2
                w4 == Fire(w3, <<"DiceRolled", playerID, diceValue, extraTurn>>)
            IN [w4 EXCEPT !.ret = Returned("RollDice", diceValue, extraTurn, NoError)]

\* MoveToken with the move recorded at the front of the history.
MoveToken_Prepends(w, playerID, tokenID) ==
    IF currentPlayer(w).ID # playerID
    THEN [w EXCEPT !.ret = Returned("MoveToken", 0, FALSE, ErrNotYourTurn)]
    ELSE IF tokenID < 0 \/ tokenID >= TokensPerPlayer
    THEN [w EXCEPT !.ret = Returned("MoveToken", 0, FALSE, ErrInvalidTokenId)]
    ELSE
    LET seat == w.CurrentTurn
        color == currentPlayer(w).Color
        ptr == <<seat, tokenID>>
        token == Token(w, ptr)
        diceValue == w.LastDice
    IN IF ~ canMoveToken(w, token, diceValue, color)
       THEN [w EXCEPT !.ret = Returned("MoveToken", 0, FALSE, ErrInvalidMove)]
       ELSE
       LET oldPos == token.Position
           newPos == calculateNewPosition(token, diceValue, color)
           w1 == moveTokenToPosition(w, ptr, newPos, color)
           cap == checkCapture(w1, newPos, seat)
           action == [PlayerID |-> playerID, DiceValue |-> diceValue,
                      TokenMoved |-> ptr, FromPos |-> oldPos, ToPos |-> newPos,
                      Captured |-> cap.captured]
           w2 == [cap.w EXCEPT !.TurnHistory = <<action>> \o @]
           w3 == Fire(w2, <<"TokenMoved", playerID, ptr, oldPos, newPos>>)
           victims == {s \in 1 .. Len(w.Players) :
                          cap.captured # NilToken
                          /\ w.Players[s].Color = TokenColor(w, cap.captured)}
           victimPlayerID == IF victims = {} THEN 0
                             ELSE w.Players[CHOOSE s \in victims :
                                                \A o \in victims : s <= o].ID
           w4 == IF cap.captured # NilToken
                 THEN Fire(w3, <<"TokenCaptured", playerID, victimPlayerID,
                                 cap.captured, newPos>>)
                 ELSE w3
           w5 == IF checkWin(w4, seat)
                 THEN endGame([w4 EXCEPT !.TokensAtHome[seat + 1] = TokensPerPlayer], seat)
                 ELSE IF diceValue # RollForExtraTurn THEN nextTurn(w4) ELSE w4
       IN [w5 EXCEPT !.ret = Returned("MoveToken", 0, FALSE, NoError)]

MoveToken(w, playerID, tokenID) ==
    IF currentPlayer(w).ID # playerID
    THEN [w EXCEPT !.ret = Returned("MoveToken", 0, FALSE, ErrNotYourTurn)]
    ELSE IF tokenID < 0 \/ tokenID >= TokensPerPlayer
    THEN [w EXCEPT !.ret = Returned("MoveToken", 0, FALSE, ErrInvalidTokenId)]
    ELSE
    LET seat == w.CurrentTurn
        color == currentPlayer(w).Color
        ptr == <<seat, tokenID>>
        token == Token(w, ptr)
        diceValue == w.LastDice
    IN IF ~ canMoveToken(w, token, diceValue, color)
       THEN [w EXCEPT !.ret = Returned("MoveToken", 0, FALSE, ErrInvalidMove)]
       ELSE
       LET oldPos == token.Position
           newPos == calculateNewPosition(token, diceValue, color)
           w1 == moveTokenToPosition(w, ptr, newPos, color)
           cap == checkCapture(w1, newPos, seat)
           action == [PlayerID |-> playerID, DiceValue |-> diceValue,
                      TokenMoved |-> ptr, FromPos |-> oldPos, ToPos |-> newPos,
                      Captured |-> cap.captured]
           w2 == [cap.w EXCEPT !.TurnHistory = Append(@, action)]
           w3 == Fire(w2, <<"TokenMoved", playerID, ptr, oldPos, newPos>>)
           victims == {s \in 1 .. Len(w.Players) :
                          cap.captured # NilToken
                          /\ w.Players[s].Color = TokenColor(w, cap.captured)}
           victimPlayerID == IF victims = {} THEN 0
                             ELSE w.Players[CHOOSE s \in victims :
                                                \A o \in victims : s <= o].ID
           w4 == IF cap.captured # NilToken
                 THEN Fire(w3, <<"TokenCaptured", playerID, victimPlayerID,
                                 cap.captured, newPos>>)
                 ELSE w3
           w5 == IF checkWin(w4, seat)
                 THEN endGame([w4 EXCEPT !.TokensAtHome[seat + 1] = TokensPerPlayer], seat)
                 ELSE IF diceValue # RollForExtraTurn THEN nextTurn(w4) ELSE w4
       IN [w5 EXCEPT !.ret = Returned("MoveToken", 0, FALSE, NoError)]

(******************************* pkg/ai ***********************************)
AI_calculateNewPosition(token, diceValue, color) ==
    IF token.Position = -1 THEN StartingPositions[color]
    ELSE LET newPos == token.Position + diceValue
             homeEntry == HomeStretchStart[color]
         IN IF token.Position < homeEntry /\ newPos >= homeEntry
            THEN 52 + (newPos - homeEntry)
            ELSE IF newPos >= 52 /\ token.Position < 52
                 THEN newPos % 52
                 ELSE newPos

AI_canMoveToken(w, token, diceValue, color) ==
    IF token.IsHome THEN FALSE
    ELSE IF token.Position = -1 THEN diceValue = RollToStart
    ELSE LET newPos == AI_calculateNewPosition(token, diceValue, color)
         IN IF newPos > 57 THEN FALSE
            ELSE IF newPos >= 52
                 THEN ~ (/\ w.HomeStretches[color][newPos - 52] # NilToken
                         /\ TokenColor(w, w.HomeStretches[color][newPos - 52]) = color)
                 ELSE ~ (/\ w.Cells[newPos] # NilToken
                         /\ TokenColor(w, w.Cells[newPos]) = color)

\* The token ids that can move, in token order.
getValidTokens(w, seat, diceValue) ==
    SelectSeq([i \in 1 .. TokensPerPlayer |-> i - 1],
              LAMBDA t : AI_canMoveToken(w, w.Tokens[seat + 1][t], diceValue,
                                         w.Players[seat + 1].Color))

canCapture(w, pos, color) ==
    IF pos < 0 \/ pos >= 52 THEN FALSE
    ELSE IF w.Cells[pos] = NilToken THEN FALSE
    ELSE IF IsSafeCell(pos) THEN FALSE
    ELSE TokenColor(w, w.Cells[pos]) # color

isSafePosition(pos) ==
    IF pos < 0 \/ pos >= 52 THEN TRUE ELSE pos \in SafePositions

abs(x) == IF x < 0 THEN -x ELSE x

isTokenIsolated(w, seat, t) ==
    LET token == w.Tokens[seat + 1][t]
    IN IF token.Position < 0 \/ token.Position >= 52 THEN FALSE
       ELSE ~ \E o \in TokenIds :
                /\ o # t
                /\ w.Tokens[seat + 1][o].Position >= 0
                /\ abs(token.Position - w.Tokens[seat + 1][o].Position) <= 6

isPositionDangerous(w, pos, color) ==
    IF isSafePosition(pos) THEN FALSE
    ELSE \E i \in 1 .. 6 :
            LET checkPos == (pos - i + 52) % 52
            IN /\ w.Cells[checkPos] # NilToken
               /\ TokenColor(w, w.Cells[checkPos]) # color

blocksOpponent(w, pos) ==
    IF pos < 0 \/ pos >= 52 THEN FALSE
    ELSE \E i \in 1 .. 6 :
            LET checkPos == (pos + i) % 52
            IN /\ w.Cells[checkPos] # NilToken
               /\ Token(w, w.Cells[checkPos]).Position > 45

evaluateMove(w, seat, t, diceValue) ==
    LET token == w.Tokens[seat + 1][t]
        color == w.Players[seat + 1].Color
        newPos == AI_calculateNewPosition(token, diceValue, color)
    IN (IF canCapture(w, newPos, color) THEN 1000 ELSE 0)
       + (IF token.Position = -1 /\ diceValue = RollToStart THEN 500 ELSE 0)
       + (IF newPos >= 52 THEN 800 ELSE 0)
       + (IF isSafePosition(newPos) THEN 300 ELSE 0)
       + newPos * 10
       - (IF isTokenIsolated(w, seat, t) THEN 200 ELSE 0)
       - (IF isPositionDangerous(w, newPos, color) THEN 400 ELSE 0)
       + (IF blocksOpponent(w, newPos) THEN 600 ELSE 0)

\* The first index of a sequence of flags that holds TRUE, 0 when none does:
\* where a loop over the valid tokens stops, or which token it keeps.
FirstIndex(flags) ==
    IF \E i \in 1 .. Len(flags) : flags[i]
    THEN CHOOSE i \in 1 .. Len(flags) :
            flags[i] /\ \A j \in 1 .. (i - 1) : ~ flags[j]
    ELSE 0

\* Each policy gives the set of token ids it can return; -1 is the nil token.
selectTokenEasy(w, seat, diceValue) ==
    LET validTokens == getValidTokens(w, seat, diceValue)
    IN IF Len(validTokens) = 0 THEN {-1}
       ELSE {validTokens[i] : i \in 1 .. Len(validTokens)}

selectTokenMedium(w, seat, diceValue) ==
    LET validTokens == getValidTokens(w, seat, diceValue)
        color == w.Players[seat + 1].Color
        pos(t) == w.Tokens[seat + 1][t].Position
        capturing == FirstIndex([i \in 1 .. Len(validTokens) |->
            canCapture(w, AI_calculateNewPosition(w.Tokens[seat + 1][validTokens[i]],
                                                  diceValue, color), color)])
        inBase == FirstIndex([i \in 1 .. Len(validTokens) |-> pos(validTokens[i]) = -1])
        best == FirstIndex([i \in 1 .. Len(validTokens) |->
            /\ pos(validTokens[i]) > -1
            /\ \A j \in 1 .. Len(validTokens) : pos(validTokens[j]) <= pos(validTokens[i])])
    IN IF Len(validTokens) = 0 THEN {-1}
       ELSE IF capturing # 0 THEN {validTokens[capturing]}
       ELSE IF diceValue = RollToStart /\ inBase # 0 THEN {validTokens[inBase]}
       ELSE IF best # 0 THEN {validTokens[best]}
       ELSE {-1}

selectTokenHard(w, seat, diceValue) ==
    LET validTokens == getValidTokens(w, seat, diceValue)
        score(t) == evaluateMove(w, seat, t, diceValue)
        best == FirstIndex([i \in 1 .. Len(validTokens) |->
            \A j \in 1 .. Len(validTokens) :
                score(validTokens[j]) <= score(validTokens[i])])
    IN IF Len(validTokens) = 0 THEN {-1} ELSE {validTokens[best]}

SelectToken(w, seat, diceValue) ==
    LET level == w.Players[seat + 1].AILevel
    IN CASE level = "easy" -> selectTokenEasy(w, seat, diceValue)
         [] level = "medium" -> selectTokenMedium(w, seat, diceValue)
         [] level = "hard" -> selectTokenHard(w, seat, diceValue)
         [] OTHER -> selectTokenMedium(w, seat, diceValue)

(************************* tasks of the engine ****************************)
\* handleAITurn, first locked section: the roll made for the AI player.
handleAITurnRoll(w, task, r) ==
    LET w1 == RollDice(w, w.Players[task.seat + 1].ID, r)
        after == [task EXCEPT !.pc = "select", !.dice = w1.ret.value,
                              !.extra = w1.ret.extra]
    IN [w1 EXCEPT !.goroutines = (@ (-) SetToBag({task})) (+) SetToBag({after})]

\* handleAITurn, the selection: reads the board, tok is the token chosen.
handleAITurnSelect(w, task, tok) ==
    LET after == [task EXCEPT !.pc = "commit", !.tok = tok]
    IN [w EXCEPT !.goroutines = (@ (-) SetToBag({task})) (+) SetToBag({after})]

\* handleAITurn, last locked section: the move, or the explicit turn advance.
handleAITurnCommit(w, task) ==
    LET w0 == [w EXCEPT !.goroutines = @ (-) SetToBag({task})]
        id == w.Players[task.seat + 1].ID
    IN IF task.tok # -1 THEN MoveToken(w0, id, task.tok)
       ELSE IF ~ task.extra
            THEN [nextTurn(w0) EXCEPT !.ret = Returned("nextTurn", 0, FALSE, NoError)]
            ELSE [w0 EXCEPT !.ret = Returned("handleAITurn", 0, FALSE, NoError)]

\* The timeout callback leaving the turn where it is: C38 must notice.
timeoutCallback_Idle(w, task) ==
    LET w0 == [w EXCEPT !.goroutines = @ (-) SetToBag({task})]
    IN [w0 EXCEPT !.ret = Returned("timeout", 0, FALSE, NoError)]

\* The function given to time.AfterFunc in startTurnTimer.
timeoutCallback(w, task) ==
    LET w0 == [w EXCEPT !.goroutines = @ (-) SetToBag({task})]
        w1 == IF currentPlayer(w0).ID = task.id THEN nextTurn(w0) ELSE w0
    IN [w1 EXCEPT !.ret = Returned("timeout", 0, FALSE, NoError)]

(****************************** actions ***********************************)
\* Player ids that send calls: the seated human players.
CallerIDs == {e.Players[s].ID : s \in {x \in 1 .. Len(e.Players) : ~ e.Players[x].IsAI}}

\* Token ids sent with a move: the four tokens and one id out of range.
TokenArgs == 0 .. TokensPerPlayer

\* Values rand.Intn(n) returns: the least ones and the greatest.
Intn(n) == {x \in 0 .. (n - 1) : x < MaxDraws - 1 \/ x = n - 1}

Tasks == BagToSet(goroutines)

RECURSIVE Sum(_, _)
Sum(f, S) == IF S = {} THEN 0
             ELSE LET x == CHOOSE y \in S : TRUE IN f[x] + Sum(f, S \ {x})

\* Successful RollDice and MoveToken calls made so far.
Used(w) == Sum(w.rollCount, DOMAIN w.rollCount) + Len(w.TurnHistory)

\* The model stops a call that would take a counter over its bound.
Within(w, cap) ==
    /\ Used(w) <= cap
    /\ BagCardinality(w.goroutines) <= MaxGoroutines

Commit(w) ==
    /\ e' = EngineOf(w)
    /\ goroutines' = w.goroutines
    /\ events' = w.events
    /\ ret' = w.ret
    /\ UNCHANGED managerVars

StartCall(cap) ==
    \E turn \in Intn(Len(e.Players)) :
        LET w == Start(World, turn)
        IN Within(w, cap) /\ Commit(w)

RollDiceCall(cap) ==
    \E playerID \in CallerIDs, r \in Intn(DiceMax) :
        LET w == RollDice(World, playerID, r)
        IN Within(w, cap) /\ Commit(w)

MoveTokenCall(cap) ==
    \E playerID \in CallerIDs, tokenID \in TokenArgs :
        LET w == MoveToken(World, playerID, tokenID)
        IN Within(w, cap) /\ Commit(w)

TimerFires ==
    /\ e.turnTimer # NoTimer
    /\ BagCardinality(goroutines) < MaxGoroutines
    /\ goroutines' = goroutines (+) SetToBag({TimeoutTask(e.turnTimer[1])})
    /\ e' = [e EXCEPT !.turnTimer = NoTimer]
    /\ UNCHANGED <<events, ret, managerVars>>

TimeoutRuns(cap) ==
    \E task \in {t \in Tasks : t.kind = "timeout"} :
        LET w == timeoutCallback(World, task)
        IN Within(w, cap) /\ Commit(w)

AIRolls(cap) ==
    \E task \in {t \in Tasks : t.kind = "ai" /\ t.pc = "roll"}, r \in Intn(DiceMax) :
        LET w == handleAITurnRoll(World, task, r)
        IN Within(w, cap) /\ Commit(w)

AISelects ==
    \E task \in {t \in Tasks : t.kind = "ai" /\ t.pc = "select"} :
        \E tok \in SelectToken(World, task.seat, task.dice) :
            /\ goroutines' = handleAITurnSelect(World, task, tok).goroutines
            /\ UNCHANGED <<e, events, ret, managerVars>>

AICommits(cap) ==
    \E task \in {t \in Tasks : t.kind = "ai" /\ t.pc = "commit"} :
        LET w == handleAITurnCommit(World, task)
        IN Within(w, cap) /\ Commit(w)

NextUpTo(cap) ==
    \/ StartCall(cap)
    \/ RollDiceCall(cap)
    \/ MoveTokenCall(cap)
    \/ TimerFires
    \/ TimeoutRuns(cap)
    \/ AIRolls(cap)
    \/ AISelects
    \/ AICommits(cap)

(*************************** specifications *******************************)
HumanRed == NewPlayer(1, ColorRed)
HumanBlue == NewPlayer(2, ColorBlue)
HumanGreen == NewPlayer(3, ColorGreen)
AILevels == {"easy", "medium", "hard"}

\* The rooms an engine is built for.
Rosters ==
    {<<HumanRed>>, <<HumanRed, HumanBlue>>, <<HumanRed, HumanBlue, HumanGreen>>}
    \cup {<<HumanRed, NewAIPlayer(ColorBlue, level)>> : level \in AILevels}

\* An engine built directly for a list of players, with no Manager.
StartsAs(w) ==
    /\ e = EngineOf(w)
    /\ goroutines = w.goroutines
    /\ events = w.events
    /\ ret = w.ret
    /\ rooms = <<>>
    /\ registry = {}
    /\ pending = <<>>
    /\ now = 0

\* A game from the construction of its engine.
Init == \E players \in Rosters : StartsAs(NewEngine(players))

Next == NextUpTo(MaxCalls)

Spec == Init /\ [][Next]_vars

\* A sequence of calls made one after the other, up to the first that fails.
RECURSIVE Replay(_, _)
Replay(w, calls) ==
    IF calls = <<>> THEN w
    ELSE LET c == Head(calls)
             w0 == [w EXCEPT !.events = <<>>]
             w1 == CASE c[1] = "Start" -> Start(w0, c[2])
                     [] c[1] = "RollDice" -> RollDice(w0, c[2], c[3])
                     [] c[1] = "MoveToken" -> MoveToken(w0, c[2], c[3])
         IN IF w1.ret.err = NoError THEN Replay(w1, Tail(calls)) ELSE w1

Times(n, c) == [i \in 1 .. n |-> c]

\* Red rolls its first 6 and, the turn staying with it after each move of a
\* 6, brings its tokens to 56, 48, 42 and 36: none can move a 6 further.
RedToEndgame ==
    <<<<"RollDice", 1, 0>>>>
    \o Times(10, <<"MoveToken", 1, 0>>) \o Times(9, <<"MoveToken", 1, 1>>)
    \o Times(8, <<"MoveToken", 1, 2>>) \o Times(7, <<"MoveToken", 1, 3>>)

\* Blue starts, brings a token to cell 44 (6 six times, then 1) and the
\* turn passes to red.
BlueTo44 ==
    <<<<"Start", 1>>, <<"RollDice", 2, 0>>>> \o Times(6, <<"MoveToken", 2, 0>>)
    \o <<<<"RollDice", 2, 0>>, <<"MoveToken", 2, 0>>>>

EndgameCallsHumans == BlueTo44 \o RedToEndgame

EndgameCallsAI == <<<<"Start", 0>>>> \o RedToEndgame

EndgameAI(level) ==
    Replay(NewEngine(<<HumanRed, NewAIPlayer(ColorBlue, level)>>), EndgameCallsAI)

\* The RollDice and MoveToken calls of a sequence of calls.
Counted(calls) == Len(SelectSeq(calls, LAMBDA c : c[1] # "Start"))

\* A game played on from an endgame position.
InitEnd ==
    \/ \E players \in {<<HumanRed, HumanBlue>>} :
            StartsAs(Replay(NewEngine(players), EndgameCallsHumans))
    \/ \E level \in AILevels : StartsAs(EndgameAI(level))

EndCap ==
    (IF e.Players[2].IsAI THEN Counted(EndgameCallsAI) ELSE Counted(EndgameCallsHumans))
    + MaxEndCalls

NextEnd ==
    \/ StartCall(EndCap)
    \/ RollDiceCall(EndCap)
    \/ MoveTokenCall(EndCap)
    \/ TimerFires
    \/ TimeoutRuns(EndCap)
    \/ AIRolls(EndCap)
    \/ AISelects
    \/ AICommits(EndCap)

SpecEnd == InitEnd /\ [][NextEnd]_vars

\* Red brings token 0 to cell 13, blue's starting cell; blue enters a token
\* on 13 and moves it on to 15; red brings token 1 to cell 12 with a 6.
RedApartBy1 ==
    <<<<"Start", 0>>, <<"RollDice", 1, 0>>>> \o Times(3, <<"MoveToken", 1, 0>>)
    \o <<<<"RollDice", 1, 0>>, <<"MoveToken", 1, 0>>>>
    \o <<<<"RollDice", 2, 0>>, <<"MoveToken", 2, 0>>>>
    \o <<<<"RollDice", 2, 1>>, <<"MoveToken", 2, 0>>>>
    \o <<<<"RollDice", 1, 5>>>> \o Times(3, <<"MoveToken", 1, 1>>)

\* successful RollDice and MoveToken calls played on from a middle-game
\* position
MaxMidCalls == 3

\* A game of two players played on from a middle-game position.
InitMid ==
    \E players \in {<<HumanRed, HumanBlue>>} :
        StartsAs(Replay(NewEngine(players), RedApartBy1))

MidCap == Counted(RedApartBy1) + MaxMidCalls

NextMid ==
    \/ StartCall(MidCap)
    \/ RollDiceCall(MidCap)
    \/ MoveTokenCall(MidCap)
    \/ TimerFires
    \/ TimeoutRuns(MidCap)

SpecMid == InitMid /\ [][NextMid]_vars

(************************ rooms and their Manager **************************)
ErrRoomFull == "room is full"
ErrAlreadyInRoom == "player already in room"
ErrRoomNotFound == "room not found"
ErrPlayerNotInRoom == "player not in room"

\* room ids generateRoomID can return
MaxRooms == 1
\* readings of the clock, from 0
MaxClock == 1
\* Room objects created while the clock is watched
MaxCreated == 3
\* ids of the users that create, join and leave rooms
MaxUsers == 4
\* greatest maxPlayers a room is created with
MaxRoomSize == 4
\* events an engine sends to a room whose message loop is left out
MaxEvents == 2

\* capacity of the channel CreateRoom makes for Room.messages
QueueCapacity == 100

ErrCloseOfNil == "close of nil channel"
ErrCloseOfClosed == "close of closed channel"

\* generateRoomID: the reading of the clock behind a fixed prefix.
generateRoomID(t) == <<"ROOM", t>>

RoomIds == {generateRoomID(t) : t \in 0 .. MaxClock}

UserIds == 1 .. MaxUsers

\* The sizes the request validator lets through, up to the bound.
RoomSizes == {n \in MinPlayers .. MaxRoomSize : n <= 4}

\* The order in which AddPlayer looks for a colour no player has.
ColorOrder == <<ColorRed, ColorBlue, ColorGreen, ColorYellow>>

\* What a call on a room or on the Manager returned.
RoomReturned(op, room, player, err) ==
    [op |-> op, room |-> room, player |-> player, err |-> err]

\* The Room that CreateRoom builds, with its model: the host is seated, the
\* Engine and the done channel are nil, the messages channel is empty, and
\* Run has been started in a goroutine of its own.  messages counts the
\* messages in the channel; sending tells that a callback of the engine is
\* blocked in its send on the full channel.  players holds the ids that have
\* a connection record, ready those whose record has its Ready flag set.
NewRoom(roomID, hostID, maxPlayers, isPrivate) ==
    [ID |-> roomID,
     Players |-> <<NewPlayer(hostID, ColorRed)>>,
     MaxPlayers |-> maxPlayers,
     HostID |-> hostID,
     IsPrivate |-> isPrivate,
     State |-> StateWaiting,
     CurrentTurn |-> 0,
     players |-> {hostID},
     ready |-> {},
     Engine |-> FALSE,
     messages |-> 0,
     sending |-> FALSE,
     done |-> "nil",
     loop |-> "running"]

\* r.messages <- msg, the whole body of each callback Room.Start gives the
\* engine: the message is queued, or the sender blocks on the full channel.
Send(rm) ==
    IF rm.messages < QueueCapacity
    THEN [rm EXCEPT !.messages = @ + 1]
    ELSE [rm EXCEPT !.sending = TRUE]

\* A sequence without its i-th element.
Without(seq, i) == [j \in 1 .. (Len(seq) - 1) |-> IF j < i THEN seq[j] ELSE seq[j + 1]]

\* AddPlayer with the test for a full room off by one: C20 must notice.
AddPlayer_OneTooMany(rm, playerID) ==
    IF Len(rm.Players) > rm.MaxPlayers
    THEN [rm |-> rm, err |-> ErrRoomFull]
    ELSE IF playerID \in rm.players
    THEN [rm |-> rm, err |-> ErrAlreadyInRoom]
    ELSE LET usedColors == {rm.Players[i].Color : i \in 1 .. Len(rm.Players)}
             free == {i \in 1 .. Len(ColorOrder) : ColorOrder[i] \notin usedColors}
             playerColor == IF free = {} THEN ""
                            ELSE ColorOrder[CHOOSE i \in free : \A j \in free : i <= j]
         IN [rm |-> [rm EXCEPT !.Players = Append(@, NewPlayer(playerID, playerColor)),
                               !.players = @ \cup {playerID}],
             err |-> NoError]

\* AddPlayer giving the colour of the seat instead of the first colour
\* nobody has: C21 must notice.
AddPlayer_ColorBySeat(rm, playerID) ==
    IF Len(rm.Players) >= rm.MaxPlayers
    THEN [rm |-> rm, err |-> ErrRoomFull]
    ELSE IF playerID \in rm.players
    THEN [rm |-> rm, err |-> ErrAlreadyInRoom]
    ELSE [rm |-> [rm EXCEPT !.Players = Append(@, NewPlayer(playerID,
                                                  ColorOrder[Len(rm.Players) + 1])),
                            !.players = @ \cup {playerID}],
          err |-> NoError]

\* Room.AddPlayer: the room after the call and the error returned.
AddPlayer(rm, playerID) ==
    IF Len(rm.Players) >= rm.MaxPlayers
    THEN [rm |-> rm, err |-> ErrRoomFull]
    ELSE IF playerID \in rm.players
    THEN [rm |-> rm, err |-> ErrAlreadyInRoom]
    ELSE LET usedColors == {rm.Players[i].Color : i \in 1 .. Len(rm.Players)}
             free == {i \in 1 .. Len(ColorOrder) : ColorOrder[i] \notin usedColors}
             playerColor == IF free = {} THEN ""
                            ELSE ColorOrder[CHOOSE i \in free : \A j \in free : i <= j]
         IN [rm |-> [rm EXCEPT !.Players = Append(@, NewPlayer(playerID, playerColor)),
                               !.players = @ \cup {playerID}],
             err |-> NoError]

\* Room.RemovePlayer.
RemovePlayer(rm, playerID) ==
    LET found == {i \in 1 .. Len(rm.Players) : rm.Players[i].ID = playerID}
        Players1 == IF found = {} THEN rm.Players
                    ELSE Without(rm.Players, CHOOSE i \in found : \A j \in found : i <= j)
    IN [rm EXCEPT !.players = @ \ {playerID},
                  !.ready = @ \ {playerID},
                  !.Players = Players1,
                  !.HostID = IF @ = playerID /\ Len(Players1) > 0
                             THEN Players1[1].ID ELSE @]

\* Room.SetPlayerReady: the room after the call and the error returned.
SetPlayerReady(rm, playerID, ready) ==
    IF playerID \notin rm.players
    THEN [rm |-> rm, err |-> ErrPlayerNotInRoom]
    ELSE LET found == {i \in 1 .. Len(rm.Players) : rm.Players[i].ID = playerID}
             first == CHOOSE i \in found : \A j \in found : i <= j
         IN [rm |-> [rm EXCEPT !.ready = IF ready THEN @ \cup {playerID} ELSE @ \ {playerID},
                               !.Players = IF found = {} THEN @
                                           ELSE [@ EXCEPT ![first].IsReady = ready]],
             err |-> NoError]

\* CanStart without the count of the players: C24 must notice.
CanStart_AnyCount(rm) == \A id \in rm.players : id \in rm.ready

\* Room.CanStart.
CanStart(rm) ==
    IF Len(rm.Players) < MinPlayers THEN FALSE
    ELSE \A id \in rm.players : id \in rm.ready

\* Room.IsEmpty.
IsEmpty(rm) == rm.players = {}

\* Room.Start with the Engine.Start it calls, as far as the room's model
\* goes: turn is the seat drawn by rand.Intn(len(Players)).
RoomStart(rm, turn) ==
    IF rm.State # StateWaiting
    THEN [rm |-> rm, err |-> ErrAlreadyStarted]
    ELSE IF Len(rm.Players) < MinPlayers
    THEN [rm |-> [rm EXCEPT !.Engine = TRUE], err |-> ErrNotEnoughPlayers]
    ELSE [rm |-> Send([rm EXCEPT !.Engine = TRUE, !.CurrentTurn = turn,
                                 !.State = StatePlaying]),
          err |-> NoError]

\* Engine.nextTurn, as far as the room goes: the turn moves on and
\* OnTurnChanged sends its message.
RoomNextTurn(rm) ==
    Send([rm EXCEPT !.CurrentTurn = (rm.CurrentTurn + 1) % Len(rm.Players)])

\* Room.Close: close(r.done), which panics on a channel that is nil or
\* already closed.
Close(rm) ==
    CASE rm.done = "nil" -> [rm |-> rm, err |-> ErrCloseOfNil]
      [] rm.done = "closed" -> [rm |-> rm, err |-> ErrCloseOfClosed]
      [] OTHER -> [rm |-> [rm EXCEPT !.done = "closed"], err |-> NoError]

\* The cases of Run's select that can proceed: a receive from messages, the
\* ticker, a receive from done (never, on a nil channel).
Ready(rm) ==
    {"ticker"} \cup (IF rm.messages > 0 THEN {"messages"} ELSE {})
               \cup (IF rm.done = "closed" THEN {"done"} ELSE {})

\* One turn of Run's loop, which took the given case of the select.  A
\* receive from the full channel lets the blocked sender put its message.
Run(rm, case) ==
    CASE case = "messages" ->
            IF rm.sending THEN [rm EXCEPT !.sending = FALSE]
            ELSE [rm EXCEPT !.messages = @ - 1]
      [] case = "ticker" ->
            IF IsEmpty(rm) THEN [rm EXCEPT !.loop = "returned"] ELSE rm
      [] OTHER -> [rm EXCEPT !.loop = "returned"]

\* The rooms created so far.
Created == DOMAIN rooms

AddPlayerCall ==
    \E id \in Created, playerID \in UserIds :
        LET r == AddPlayer(rooms[id], playerID)
        IN /\ rooms' = [rooms EXCEPT ![id] = r.rm]
           /\ ret' = RoomReturned("AddPlayer", id, playerID, r.err)
           /\ UNCHANGED <<now, e, goroutines, events, registry, pending>>

RemovePlayerCall ==
    \E id \in Created, playerID \in UserIds :
        /\ rooms' = [rooms EXCEPT ![id] = RemovePlayer(@, playerID)]
        /\ ret' = RoomReturned("RemovePlayer", id, playerID, NoError)
        /\ UNCHANGED <<now, e, goroutines, events, registry, pending>>

RoomStartCall ==
    \E id \in Created :
        \E turn \in IF Len(rooms[id].Players) = 0 THEN {0}
                    ELSE Intn(Len(rooms[id].Players)) :
            LET r == RoomStart(rooms[id], turn)
            IN /\ rooms' = [rooms EXCEPT ![id] = r.rm]
               /\ ret' = RoomReturned("Start", id, 0, r.err)
               /\ UNCHANGED <<now, e, goroutines, events, registry, pending>>

\* An engine call, or the timeout, that looks up the current player and
\* ends with nextTurn, in a room that holds fewer than cap messages.  The
\* lookup of a seat that is not in the list panics: the call never returns.
\* A callback blocked in its send holds the engine's lock.
EngineTurn(cap) ==
    \E id \in Created :
        /\ rooms[id].Engine
        /\ rooms[id].State = StatePlaying
        /\ ~rooms[id].sending
        /\ rooms[id].messages < cap
        /\ rooms[id].CurrentTurn < Len(rooms[id].Players)
        /\ rooms' = [rooms EXCEPT ![id] = RoomNextTurn(@)]
        /\ ret' = RoomReturned("nextTurn", id, 0, NoError)
        /\ UNCHANGED <<now, e, goroutines, events, registry, pending>>

\* One room as CreateRoom returns it, used through its own methods.
InitRoom ==
    /\ \E hostID \in UserIds, maxPlayers \in RoomSizes, isPrivate \in BOOLEAN :
        rooms = <<NewRoom(generateRoomID(0), hostID, maxPlayers, isPrivate)>>
    /\ registry = {1}
    /\ pending = <<>>
    /\ now = 0
    /\ e = EngineOf(NewEngine(<<>>))
    /\ goroutines = EmptyBag
    /\ events = <<>>
    /\ ret = RoomReturned("CreateRoom", 1, 0, NoError)

NextRoom ==
    \/ AddPlayerCall
    \/ RemovePlayerCall
    \/ RoomStartCall
    \/ EngineTurn(MaxEvents)

SpecRoom == InitRoom /\ [][NextRoom]_vars

SetPlayerReadyCall ==
    \E id \in Created, playerID \in UserIds, ready \in BOOLEAN :
        LET r == SetPlayerReady(rooms[id], playerID, ready)
        IN /\ rooms' = [rooms EXCEPT ![id] = r.rm]
           /\ ret' = RoomReturned("SetPlayerReady", id, playerID, r.err)
           /\ UNCHANGED <<now, e, goroutines, events, registry, pending>>

CanStartCall ==
    \E id \in Created :
        /\ ret' = [op |-> "CanStart", room |-> id, player |-> 0, err |-> NoError,
                   value |-> CanStart(rooms[id])]
        /\ UNCHANGED <<now, e, goroutines, events, rooms, registry, pending>>

\* One public room as CreateRoom returns it to user 1, before the game:
\* players come, go and say whether they are ready.
InitReady ==
    /\ \E maxPlayers \in RoomSizes : rooms = <<NewRoom(generateRoomID(0), 1, maxPlayers, FALSE)>>
    /\ registry = {1}
    /\ pending = <<>>
    /\ now = 0
    /\ e = EngineOf(NewEngine(<<>>))
    /\ goroutines = EmptyBag
    /\ events = <<>>
    /\ ret = RoomReturned("CreateRoom", 1, 0, NoError)

NextReady ==
    \/ AddPlayerCall
    \/ RemovePlayerCall
    \/ SetPlayerReadyCall
    \/ CanStartCall

SpecReady == InitReady /\ [][NextReady]_vars

CloseCall ==
    \E id \in Created :
        LET r == Close(rooms[id])
        IN /\ rooms' = [rooms EXCEPT ![id] = r.rm]
           /\ ret' = RoomReturned("Close", id, 0, r.err)
           /\ UNCHANGED <<now, e, goroutines, events, registry, pending>>

\* The goroutine that CreateRoom started takes one turn of Run's loop.
RunSelects ==
    \E id \in Created :
        /\ rooms[id].loop = "running"
        /\ \E case \in Ready(rooms[id]) :
              rooms' = [rooms EXCEPT ![id] = Run(@, case)]
        /\ UNCHANGED <<now, e, goroutines, events, ret, registry, pending>>

\* One public room for two players as CreateRoom returns it, with the
\* goroutine that runs its loop.
InitLoop ==
    /\ \E hostID \in UserIds : rooms = <<NewRoom(generateRoomID(0), hostID, MinPlayers, FALSE)>>
    /\ registry = {1}
    /\ pending = <<>>
    /\ now = 0
    /\ e = EngineOf(NewEngine(<<>>))
    /\ goroutines = EmptyBag
    /\ events = <<>>
    /\ ret = RoomReturned("CreateRoom", 1, 0, NoError)

NextLoop ==
    \/ AddPlayerCall
    \/ RemovePlayerCall
    \/ RoomStartCall
    \/ EngineTurn(QueueCapacity + 1)
    \/ CloseCall
    \/ RunSelects

SpecLoop == InitLoop /\ [][NextLoop]_vars

\* goroutines of the server that call the Manager at the same time
MaxThreads == 2
\* ids of the users on whose behalf the Manager is called
MaxClients == 2

Threads == 1 .. MaxThreads

ClientIds == 1 .. MaxClients

\* A goroutine that is in no Manager call.
Idle == [op |-> "", room |-> 0, player |-> 0, todo |-> {}, pc |-> ""]

\* Some goroutine is inside CleanupEmptyRooms and holds the Manager's lock.
Sweeping == \E t \in Threads : pending[t].op = "CleanupEmptyRooms"

\* Manager.ListRooms: the rooms whose models are returned.
ListRooms ==
    {id \in registry : ~rooms[id].IsPrivate /\ rooms[id].State = StateWaiting}

\* m.rooms[roomID]: the room the map holds under an id, if any.
Lookup(roomID) == {i \in registry : rooms[i].ID = roomID}

\* Manager.CreateRoom, all of it under the Manager's lock.
\* The id is read off the clock, and m.rooms[roomID] = room takes the place
\* of a room that is in the map under the same id.  At most cap rooms are
\* created.
CreateRoomCall(cap) ==
    \E hostID \in ClientIds, maxPlayers \in RoomSizes, isPrivate \in BOOLEAN :
        /\ ~Sweeping
        /\ Len(rooms) < cap
        /\ rooms' = Append(rooms, NewRoom(generateRoomID(now), hostID, maxPlayers, isPrivate))
        /\ registry' = (registry \ Lookup(generateRoomID(now))) \cup {Len(rooms) + 1}
        /\ ret' = RoomReturned("CreateRoom", Len(rooms) + 1, hostID, NoError)
        /\ UNCHANGED <<now, e, goroutines, events, pending>>

\* The clock goes on to its next reading.
ClockTicks ==
    /\ now < MaxClock
    /\ now' = now + 1
    /\ UNCHANGED <<e, goroutines, events, ret, rooms, registry, pending>>

\* Manager.ListRooms, all of it under the Manager's read lock.
ListRoomsCall ==
    /\ ~Sweeping
    /\ ret' = RoomReturned("ListRooms", ListRooms, 0, NoError)
    /\ UNCHANGED <<now, e, goroutines, events, rooms, registry, pending>>

\* The GetRoom that JoinRoom and LeaveRoom begin with: the call returns at
\* once if the id is not registered, and goes on with the room otherwise.
GetRoomStep(op) ==
    \E t \in Threads, roomID \in RoomIds, playerID \in ClientIds :
        /\ pending[t] = Idle
        /\ ~Sweeping
        /\ IF Lookup(roomID) # {}
           THEN /\ \E id \in Lookup(roomID) :
                      pending' = [pending EXCEPT ![t] = [Idle EXCEPT !.op = op, !.room = id,
                                                        !.player = playerID, !.pc = "room"]]
                /\ UNCHANGED ret
           ELSE /\ ret' = RoomReturned(op, roomID, playerID, ErrRoomNotFound)
                /\ UNCHANGED pending
        /\ UNCHANGED <<now, e, goroutines, events, rooms, registry>>

JoinRoomGets == GetRoomStep("JoinRoom")

LeaveRoomGets == GetRoomStep("LeaveRoom")

\* JoinRoom's room.AddPlayer, and its return.
JoinRoomAdds ==
    \E t \in Threads :
        /\ pending[t].op = "JoinRoom"
        /\ LET r == AddPlayer(rooms[pending[t].room], pending[t].player)
           IN /\ rooms' = [rooms EXCEPT ![pending[t].room] = r.rm]
              /\ ret' = RoomReturned("JoinRoom", pending[t].room, pending[t].player, r.err)
        /\ pending' = [pending EXCEPT ![t] = Idle]
        /\ UNCHANGED <<now, e, goroutines, events, registry>>

\* LeaveRoom's room.RemovePlayer.
LeaveRoomRemoves ==
    \E t \in Threads :
        /\ pending[t].op = "LeaveRoom"
        /\ pending[t].pc = "room"
        /\ rooms' = [rooms EXCEPT ![pending[t].room] = RemovePlayer(@, pending[t].player)]
        /\ pending' = [pending EXCEPT ![t].pc = "IsEmpty"]
        /\ UNCHANGED <<now, e, goroutines, events, ret, registry>>

\* LeaveRoom's room.IsEmpty, and its return if the room is not empty.
LeaveRoomChecks ==
    \E t \in Threads :
        /\ pending[t].op = "LeaveRoom"
        /\ pending[t].pc = "IsEmpty"
        /\ IF IsEmpty(rooms[pending[t].room])
           THEN /\ pending' = [pending EXCEPT ![t].pc = "delete"]
                /\ UNCHANGED ret
           ELSE /\ pending' = [pending EXCEPT ![t] = Idle]
                /\ ret' = RoomReturned("LeaveRoom", pending[t].room, pending[t].player, NoError)
        /\ UNCHANGED <<now, e, goroutines, events, rooms, registry>>

\* LeaveRoom's delete under the Manager's lock, and its return.
LeaveRoomDeletes ==
    \E t \in Threads :
        /\ pending[t].op = "LeaveRoom"
        /\ pending[t].pc = "delete"
        /\ ~Sweeping
        /\ registry' = registry \ Lookup(rooms[pending[t].room].ID)
        /\ pending' = [pending EXCEPT ![t] = Idle]
        /\ ret' = RoomReturned("LeaveRoom", pending[t].room, pending[t].player, NoError)
        /\ UNCHANGED <<now, e, goroutines, events, rooms>>

\* CleanupEmptyRooms takes the Manager's lock and starts to range over the
\* registered rooms.
CleanupStarts ==
    \E t \in Threads :
        /\ pending[t] = Idle
        /\ ~Sweeping
        /\ pending' = [pending EXCEPT ![t] = [Idle EXCEPT !.op = "CleanupEmptyRooms",
                                                  !.todo = registry, !.pc = "IsEmpty"]]
        /\ UNCHANGED <<now, e, goroutines, events, ret, rooms, registry>>

\* CleanupEmptyRooms calls IsEmpty on the next room of the range, or returns
\* at the end of the range.
CleanupChecks ==
    \E t \in Threads :
        /\ pending[t].op = "CleanupEmptyRooms"
        /\ pending[t].pc = "IsEmpty"
        /\ IF pending[t].todo = {}
           THEN /\ pending' = [pending EXCEPT ![t] = Idle]
                /\ ret' = RoomReturned("CleanupEmptyRooms", 0, 0, NoError)
           ELSE /\ \E id \in pending[t].todo :
                      pending' = [pending EXCEPT ![t].todo = @ \ {id},
                                                 ![t].room = id,
                                                 ![t].pc = IF IsEmpty(rooms[id])
                                                           THEN "delete" ELSE "IsEmpty"]
                /\ UNCHANGED ret
        /\ UNCHANGED <<now, e, goroutines, events, rooms, registry>>

\* CleanupEmptyRooms deletes the room it found empty.
CleanupDeletes ==
    \E t \in Threads :
        /\ pending[t].op = "CleanupEmptyRooms"
        /\ pending[t].pc = "delete"
        /\ registry' = registry \ {pending[t].room}
        /\ pending' = [pending EXCEPT ![t].pc = "IsEmpty"]
        /\ UNCHANGED <<now, e, goroutines, events, ret, rooms>>

\* A Manager without rooms, called by several goroutines at once.
InitManager ==
    /\ rooms = <<>>
    /\ registry = {}
    /\ pending = [t \in Threads |-> Idle]
    /\ now = 0
    /\ e = EngineOf(NewEngine(<<>>))
    /\ goroutines = EmptyBag
    /\ events = <<>>
    /\ ret = RoomReturned("NewManager", 0, 0, NoError)

NextManager ==
    \/ CreateRoomCall(MaxRooms)
    \/ ListRoomsCall
    \/ JoinRoomGets
    \/ LeaveRoomGets
    \/ JoinRoomAdds
    \/ LeaveRoomRemoves
    \/ LeaveRoomChecks
    \/ LeaveRoomDeletes
    \/ CleanupStarts
    \/ CleanupChecks
    \/ CleanupDeletes
    \/ RoomStartCall

SpecManager == InitManager /\ [][NextManager]_vars

\* A Manager that creates rooms while the clock goes on or stands still.
NextClock ==
    \/ CreateRoomCall(MaxCreated)
    \/ ClockTicks

SpecClock == InitManager /\ [][NextClock]_vars

(*************************** the engine's lock ****************************)
\* A goroutine that is in no call of the engine.
Outside == [op |-> "", phase |-> "", extra |-> FALSE, pc |-> "", holds |-> FALSE]

\* The goroutines between e.mu.Lock() and e.mu.Unlock().
Holders == {t \in Threads : pending[t].holds}

\* A goroutine starts RollDice or MoveToken for a player, the callback of a
\* fired timer, or handleAITurn, and comes to its first e.mu.Lock().
EngineCallBegins ==
    \E t \in Threads, op \in {"RollDice", "MoveToken", "timeout", "handleAITurn"} :
        /\ pending[t] = Outside
        /\ pending' = [pending EXCEPT ![t] =
                [Outside EXCEPT !.op = op, !.pc = "Lock",
                                !.phase = IF op = "handleAITurn" THEN "RollDice" ELSE op]]
        /\ UNCHANGED <<now, e, goroutines, events, ret, rooms, registry>>

\* e.mu.Lock() with handleAITurn calling nextTurn without it: C14 must notice.
Locks_AdvanceUnlocked ==
    \E t \in Threads :
        /\ pending[t].pc = "Lock"
        /\ IF pending[t].phase = "nextTurn"
           THEN pending' = [pending EXCEPT ![t].pc = "mutate"]
           ELSE /\ Holders = {}
                /\ pending' = [pending EXCEPT ![t].pc = "mutate", ![t].holds = TRUE]
        /\ UNCHANGED <<now, e, goroutines, events, ret, rooms, registry>>

\* e.mu.Lock(): the goroutine gets the lock when no goroutine holds it, and
\* is then in the part of its call that reads and writes the game.
Locks ==
    \E t \in Threads :
        /\ pending[t].pc = "Lock"
        /\ Holders = {}
        /\ pending' = [pending EXCEPT ![t].pc = "mutate", ![t].holds = TRUE]
        /\ UNCHANGED <<now, e, goroutines, events, ret, rooms, registry>>

\* e.mu.Unlock() at the end of the call.  handleAITurn goes on after its
\* RollDice, which told it whether the player has an extra turn.
Unlocks ==
    \E t \in Threads :
        /\ pending[t].pc = "mutate"
        /\ IF pending[t].op = "handleAITurn" /\ pending[t].phase = "RollDice"
           THEN \E extraTurn \in BOOLEAN :
                    pending' = [pending EXCEPT ![t].phase = "SelectToken", ![t].pc = "Sleep",
                                               ![t].extra = extraTurn, ![t].holds = FALSE]
           ELSE pending' = [pending EXCEPT ![t] = Outside]
        /\ UNCHANGED <<now, e, goroutines, events, ret, rooms, registry>>

\* handleAITurn after its sleep: SelectToken reads the board without the
\* lock, then MoveToken is called, or nextTurn under the lock, or nothing.
SelectTokenStep ==
    \E t \in Threads, token \in {"nil", "token"} :
        /\ pending[t].phase = "SelectToken"
        /\ pending' = [pending EXCEPT ![t] =
                IF token # "nil" THEN [@ EXCEPT !.phase = "MoveToken", !.pc = "Lock"]
                ELSE IF ~pending[t].extra THEN [@ EXCEPT !.phase = "nextTurn", !.pc = "Lock"]
                ELSE Outside]
        /\ UNCHANGED <<now, e, goroutines, events, ret, rooms, registry>>

\* The goroutines that call one engine, and where each is with its lock.
InitLock ==
    /\ pending = [t \in Threads |-> Outside]
    /\ now = 0
    /\ rooms = <<>>
    /\ registry = {}
    /\ e = EngineOf(NewEngine(<<>>))
    /\ goroutines = EmptyBag
    /\ events = <<>>
    /\ ret = NoCall

NextLock ==
    \/ EngineCallBegins
    \/ Locks
    \/ Unlocks
    \/ SelectTokenStep

SpecLock == InitLock /\ [][NextLock]_vars

(****************************** protocol **********************************)
\* The type tags of the messages a client sends that the claims are about.
MsgJoinRoom == "JOIN_ROOM"

MsgCreateRoom == "CREATE_ROOM"

MsgRollDice == "ROLL_DICE"

ErrTypeEmpty == "message type is empty"

ErrRoomNameEmpty == "room name cannot be empty"

ErrMaxPlayers == "max players must be between 2 and 4"

ErrUsernameEmpty == "username cannot be empty"

ErrRoomIDEmpty == "room ID cannot be empty"

ErrUsernameLength == "username must be between 3 and 20 characters"

ErrUnmarshal == "failed to unmarshal payload"

\* The most spaces on either side of a string, the longest word inside one,
\* the longest string of a room name, a room id or a create/join username,
\* and the largest max_players a client asks for.
MaxPad == 2

MaxWord == 21

MaxShort == 2

MaxAsked == 5

\* A Go string is the sequence of its characters.
Pad(n) == [i \in 1 .. n |-> " "]

Word(n) == [i \in 1 .. n |-> "a"]

Strings ==
    {Pad(i) \o Word(j) \o Pad(k) : i \in 0 .. MaxPad, j \in 0 .. MaxWord, k \in 0 .. MaxPad}

ShortStrings == {s \in Strings : Len(s) <= MaxShort}

RECURSIVE TrimLeft(_)
TrimLeft(s) == IF s # <<>> /\ Head(s) = " " THEN TrimLeft(Tail(s)) ELSE s

RECURSIVE TrimRight(_)
TrimRight(s) ==
    IF s # <<>> /\ s[Len(s)] = " " THEN TrimRight(SubSeq(s, 1, Len(s) - 1)) ELSE s

\* strings.TrimSpace
TrimSpace(s) == TrimRight(TrimLeft(s))

\* A value held in an interface{}: the dynamic type and the value.
GoNil == [go |-> "nil"]

GoInt(n) == [go |-> "int", v |-> n]

GoFloat64(n) == [go |-> "float64", v |-> n]

GoString(s) == [go |-> "string", v |-> s]

GoMap(f) == [go |-> "map[string]interface{}", v |-> f]

\* The payload structs, with the fields the validator reads.
CreateRoomPayload(name, maxPlayers, username) ==
    [go |-> "CreateRoomPayload", Name |-> name, MaxPlayers |-> maxPlayers,
     Username |-> username]

JoinRoomPayload(roomID, username) ==
    [go |-> "JoinRoomPayload", RoomID |-> roomID, Username |-> username]

ConnectPayload(username) == [go |-> "ConnectPayload", Username |-> username]

\* A JSON text, by what it says.
JsonNull == [json |-> "null"]

JsonNumber(n) == [json |-> "number", v |-> n]

JsonString(s) == [json |-> "string", v |-> s]

JsonObject(members) == [json |-> "object", v |-> members]

\* json.Marshal of a value: the dynamic type is not written.
RECURSIVE Marshal(_)
Marshal(x) ==
    CASE x.go = "nil" -> JsonNull
      [] x.go \in {"int", "float64"} -> JsonNumber(x.v)
      [] x.go = "string" -> JsonString(x.v)
      [] x.go = "map[string]interface{}" ->
            JsonObject([k \in DOMAIN x.v |-> Marshal(x.v[k])])
      [] x.go = "CreateRoomPayload" ->
            JsonObject(("name" :> JsonString(x.Name))
                       @@ ("max_players" :> JsonNumber(x.MaxPlayers))
                       @@ ("username" :> JsonString(x.Username)))
      [] x.go = "JoinRoomPayload" ->
            JsonObject(("room_id" :> JsonString(x.RoomID))
                       @@ ("username" :> JsonString(x.Username)))
      [] x.go = "ConnectPayload" ->
            JsonObject("username" :> JsonString(x.Username))

\* json.Unmarshal into an interface{}: a number becomes a float64 and an
\* object a map.
RECURSIVE Unmarshal(_)
Unmarshal(j) ==
    CASE j.json = "null" -> GoNil
      [] j.json = "number" -> GoFloat64(j.v)
      [] j.json = "string" -> GoString(j.v)
      [] j.json = "object" -> GoMap([k \in DOMAIN j.v |-> Unmarshal(j.v[k])])

\* The JSON names of a payload struct's fields, each with its zero value.
Fields(target) ==
    CASE target = "CreateRoomPayload" ->
            ("name" :> JsonString(<<>>)) @@ ("max_players" :> JsonNumber(0))
            @@ ("username" :> JsonString(<<>>))
      [] target = "JoinRoomPayload" ->
            ("room_id" :> JsonString(<<>>)) @@ ("username" :> JsonString(<<>>))
      [] target = "ConnectPayload" -> ("username" :> JsonString(<<>>))

\* The member of a JSON text that fills a field: a field the text does not
\* name, or names as null, keeps its zero value.
Member(j, key, zero) ==
    IF j.json = "object" /\ key \in DOMAIN j.v /\ j.v[key].json # "null"
    THEN j.v[key]
    ELSE zero

\* ExtractPayload: the payload is marshalled and decoded into the struct.
ExtractPayload(payload, target) ==
    LET data == Marshal(payload)
        zero == Fields(target)
        got == [k \in DOMAIN zero |-> Member(data, k, zero[k])]
    IN  IF \/ data.json \notin {"object", "null"}
           \/ \E k \in DOMAIN zero : got[k].json # zero[k].json
        THEN [err |-> ErrUnmarshal, data |-> [k \in DOMAIN zero |-> zero[k].v]]
        ELSE [err |-> NoError, data |-> [k \in DOMAIN zero |-> got[k].v]]

validateCreateRoom(payload) ==
    LET x == ExtractPayload(payload, "CreateRoomPayload")
    IN  IF x.err # NoError THEN x.err
        ELSE IF TrimSpace(x.data["name"]) = <<>> THEN ErrRoomNameEmpty
        ELSE IF x.data["max_players"] < 2 \/ x.data["max_players"] > 4
             THEN ErrMaxPlayers
        ELSE IF x.data["username"] = <<>> THEN ErrUsernameEmpty
        ELSE NoError

validateJoinRoom(payload) ==
    LET x == ExtractPayload(payload, "JoinRoomPayload")
    IN  IF x.err # NoError THEN x.err
        ELSE IF x.data["room_id"] = <<>> THEN ErrRoomIDEmpty
        ELSE IF x.data["username"] = <<>> THEN ErrUsernameEmpty
        ELSE NoError

validateConnect(payload) ==
    LET x == ExtractPayload(payload, "ConnectPayload")
    IN  IF x.err # NoError THEN x.err
        ELSE IF TrimSpace(x.data["username"]) = <<>> THEN ErrUsernameEmpty
        ELSE IF Len(x.data["username"]) < 3 \/ Len(x.data["username"]) > 20
             THEN ErrUsernameLength
        ELSE NoError

ValidateMessage(msg) ==
    IF msg.Type = "" THEN ErrTypeEmpty
    ELSE CASE msg.Type = "create_room" -> validateCreateRoom(msg.Payload)
           [] msg.Type = "join_room" -> validateJoinRoom(msg.Payload)
           [] msg.Type = "connect" -> validateConnect(msg.Payload)
           [] OTHER -> NoError

\* A time.Time: the wall clock reading, and whether it carries the reading
\* of the monotonic clock that time.Now adds.
Time(wall, monotonic) == [wall |-> wall, monotonic |-> monotonic]

NetworkMessage(type, payload, timestamp, playerID, roomID) ==
    [Type |-> type, Payload |-> payload, Timestamp |-> timestamp,
     PlayerID |-> playerID, RoomID |-> roomID]

\* EncodeMessage: player_id and room_id are left out when zero (omitempty),
\* and the time is written as its wall clock reading.
EncodeMessage(msg) ==
    JsonObject([k \in {"type", "payload", "timestamp"}
                      \cup (IF msg.PlayerID # 0 THEN {"player_id"} ELSE {})
                      \cup (IF msg.RoomID # <<>> THEN {"room_id"} ELSE {}) |->
                CASE k = "type" -> JsonString(msg.Type)
                  [] k = "payload" -> Marshal(msg.Payload)
                  [] k = "timestamp" -> JsonString(<<"RFC3339Nano", msg.Timestamp.wall>>)
                  [] k = "player_id" -> JsonNumber(msg.PlayerID)
                  [] k = "room_id" -> JsonString(msg.RoomID)])

\* DecodeMessage: the payload is decoded into an interface{}.
DecodeMessage(data) ==
    NetworkMessage(
        data.v["type"].v,
        Unmarshal(data.v["payload"]),
        Time(data.v["timestamp"].v[2], FALSE),
        IF "player_id" \in DOMAIN data.v THEN data.v["player_id"].v ELSE 0,
        IF "room_id" \in DOMAIN data.v THEN data.v["room_id"].v ELSE <<>>)

\* The payloads a client sends: each struct, the same as a map with an int
\* for the number, and payloads that are no object.
Payloads ==
    {CreateRoomPayload(n, m, u) : n \in ShortStrings, m \in 0 .. MaxAsked, u \in ShortStrings}
    \cup {GoMap(("name" :> GoString(n)) @@ ("max_players" :> GoInt(m))
                @@ ("username" :> GoString(u))) :
             n \in ShortStrings, m \in 0 .. MaxAsked, u \in ShortStrings}
    \cup {JoinRoomPayload(r, u) : r \in ShortStrings, u \in ShortStrings}
    \cup {ConnectPayload(u) : u \in Strings}
    \cup {GoMap("username" :> GoString(u)) : u \in ShortStrings}
    \cup {GoNil, GoString(Word(1))}

\* The type tags a payload is sent under.
TypesOf(payload) ==
    CASE payload.go = "CreateRoomPayload" -> {MsgCreateRoom, "create_room"}
      [] payload.go = "JoinRoomPayload" -> {MsgJoinRoom, "join_room"}
      [] payload.go = "ConnectPayload" -> {"connect"}
      [] payload.go = "map[string]interface{}" ->
            IF "name" \in DOMAIN payload.v THEN {MsgCreateRoom, "create_room"}
            ELSE {MsgJoinRoom, "join_room", "connect"}
      [] OTHER -> {"", MsgRollDice, MsgCreateRoom, "create_room", MsgJoinRoom,
                   "join_room", "connect"}

Messages ==
    {NetworkMessage(m[2], m[1], Time(0, m[3]), m[4], <<>>) :
        m \in {x \in Payloads \X {"", MsgRollDice, MsgCreateRoom, "create_room",
                                  MsgJoinRoom, "join_room", "connect"}
                     \X BOOLEAN \X {0, 1} : x[2] \in TypesOf(x[1])}}

\* The validator is applied to the message received.
ValidateMessageCall ==
    /\ ret' = [op |-> "ValidateMessage", err |-> ValidateMessage(pending[1])]
    /\ UNCHANGED <<now, e, goroutines, events, rooms, registry, pending>>

\* The message received is encoded and decoded again.
DecodeMessageCall ==
    /\ ret' = [op |-> "DecodeMessage", value |-> DecodeMessage(EncodeMessage(pending[1])),
               err |-> NoError]
    /\ UNCHANGED <<now, e, goroutines, events, rooms, registry, pending>>

\* One message has been received.
InitProtocol ==
    /\ pending \in {<<msg>> : msg \in Messages}
    /\ now = 0
    /\ rooms = <<>>
    /\ registry = {}
    /\ e = EngineOf(NewEngine(<<>>))
    /\ goroutines = EmptyBag
    /\ events = <<>>
    /\ ret = NoCall

NextProtocol ==
    \/ ValidateMessageCall
    \/ DecodeMessageCall

SpecProtocol == InitProtocol /\ [][NextProtocol]_vars

(*************************** the AI on a board *****************************)
\* tokens of each colour that stand outside the base when SelectToken is
\* called
MaxPlaced == 2

\* Where a blue token and a red token stand: in base, on cells of the ring
\* around the starting cells and the home entries, on the home stretch.
BluePlaces == {-1, 13, 16, 46, 5, 9, 53}

RedPlaces == {-1, 0, 12, 15, 19, 47}

\* The engine with the tokens 0 .. Len(places) - 1 of a seat moved from the
\* base to their places.
RECURSIVE Placed(_, _, _)
Placed(w, seat, places) ==
    IF places = <<>> THEN w
    ELSE LET t == Len(places) - 1
             before == Placed(w, seat, SubSeq(places, 1, t))
         IN IF places[t + 1] = -1 THEN before
            ELSE moveTokenToPosition(before, <<seat, t>>, places[t + 1],
                                     w.Players[seat + 1].Color)

\* Places of the tokens of one colour: no two on the same cell.
Placings(places) ==
    {p \in [1 .. MaxPlaced -> places] :
        \A i, j \in 1 .. MaxPlaced : i # j /\ p[i] # -1 => p[i] # p[j]}

\* The seat of the AI player in a game of red against an AI playing blue.
AISeat == 1

\* SelectToken is called for the AI player with a dice value.
SelectTokenCall ==
    \E diceValue \in DiceMin .. DiceMax :
        \E tok \in SelectToken(World, AISeat, diceValue) :
            /\ ret' = [op |-> "SelectToken", value |-> diceValue, token |-> tok,
                       err |-> NoError]
            /\ UNCHANGED <<now, e, goroutines, events, rooms, registry, pending>>

\* A game of red against an AI, on the AI's turn, on any of the boards.
InitAI ==
    \E level \in AILevels, red \in Placings(RedPlaces), blue \in Placings(BluePlaces) :
        StartsAs(Placed(Placed([NewEngine(<<HumanRed, NewAIPlayer(ColorBlue, level)>>)
                                   EXCEPT !.State = StatePlaying,
                                          !.CurrentTurn = AISeat],
                               0, red),
                        AISeat, blue))

NextAI == SelectTokenCall

SpecAI == InitAI /\ [][NextAI]_vars

(**************************** scheduling **********************************)
\* A game of red against an AI playing blue, from construction.
InitVsAI ==
    \E level \in AILevels :
        StartsAs(NewEngine(<<HumanRed, NewAIPlayer(ColorBlue, level)>>))

\* A goroutine that can run is run in the end, and an armed timer fires.
SpecVsAI ==
    /\ InitVsAI
    /\ [][Next]_vars
    /\ WF_vars(AIRolls(MaxCalls))
    /\ WF_vars(AISelects)
    /\ WF_vars(AICommits(MaxCalls))
    /\ WF_vars(TimerFires)
    /\ WF_vars(TimeoutRuns(MaxCalls))

\* A game of two human players, from construction.
InitHumans == StartsAs(NewEngine(<<HumanRed, HumanBlue>>))

\* successful RollDice and MoveToken calls in a game watched for its timer
MaxTimerCalls == 3

NextHumans ==
    \/ StartCall(MaxTimerCalls)
    \/ RollDiceCall(MaxTimerCalls)
    \/ MoveTokenCall(MaxTimerCalls)
    \/ TimerFires
    \/ TimeoutRuns(MaxTimerCalls)

\* An armed timer fires in the end and its callback is run in the end; the
\* players call when they like, or never.
SpecTimer ==
    /\ InitHumans
    /\ [][NextHumans]_vars
    /\ WF_vars(TimerFires)
    /\ WF_vars(TimeoutRuns(MaxTimerCalls))

TypeOK ==
    /\ e.State \in {StateWaiting, StatePlaying, StateFinished}
    /\ e.CurrentTurn \in 0 .. (Len(e.Players) - 1)

(******************************* claims ***********************************)
Seats == 1 .. Len(e.Players)

SeatCount == Len(e.Players)

\* A step in which RollDice succeeded: it is the only one that counts a roll.
RollStep == e'.rollCount # e.rollCount

\* A step in which MoveToken succeeded: it is the only one that records a
\* move in the turn history.
MoveStep == Len(e'.TurnHistory) = Len(e.TurnHistory) + 1

\* The move a MoveStep recorded.
LastMove == e'.TurnHistory[Len(e'.TurnHistory)]

\* The events of one kind fired by the call of a step.
Fired(kind) == {i \in 1 .. Len(events') : events'[i][1] = kind}

\* The player whose turn it is has no token that can move by d.
NoLegalMove(d) ==
    \A t \in TokenIds :
        ~ canMoveToken(World, e.Tokens[e.CurrentTurn + 1][t], d,
                       e.Players[e.CurrentTurn + 1].Color)

\* C1: whenever a successful MoveToken lands a token on a shared-ring cell
\* (0..51) that is not a safe cell and holds a token of another colour, that
\* token is back in base after the call (position -1, not home, safe) and
\* exactly one token-captured event is fired, naming the mover and the victim.
C1_Capture ==
    [][MoveStep =>
        LET m == LastMove
            mover == m.TokenMoved[1] + 1
        IN \A s \in Seats, t \in TokenIds :
            (/\ m.ToPos \in 0 .. 51
             /\ ~ IsSafeCell(m.ToPos)
             /\ e.Players[s].Color # e.Players[mover].Color
             /\ e.Tokens[s][t].Position = m.ToPos)
            => /\ e'.Tokens[s][t] = NewToken
               /\ Cardinality(Fired("TokenCaptured")) = 1
               /\ \A i \in Fired("TokenCaptured") :
                    /\ events'[i][2] = m.PlayerID
                    /\ events'[i][3] = e.Players[s].ID
      ]_vars

\* C2: after any sequence of Start, RollDice, MoveToken, timeouts and AI
\* turns, every token's position is -1 or in 0..57.
C2_PositionInRange ==
    \A s \in Seats, t \in TokenIds :
        e.Tokens[s][t].Position \in ({-1} \cup (0 .. 57))

\* C2 witness: a token on the last cell, 57, with a token of the same player
\* on the ring and a token in base.
C2_Witness ==
    \E s1, s2 \in Seats : \E t1, t2, t3 \in TokenIds :
        /\ e.Tokens[s1][t1].Position = 57
        /\ e.Tokens[s1][t2].Position \in 0 .. 51
        /\ e.Tokens[s2][t3].Position = -1

\* C4: in every reachable state no token is home and no home-stretch index
\* reaches 6, the engine is not Finished, it has no winner and no ranking, and
\* no game-over event is fired, also with a token standing on position 57.
C4_NeverHome ==
    /\ \A s \in Seats, t \in TokenIds :
        /\ ~ e.Tokens[s][t].IsHome
        /\ e.Tokens[s][t].Position - 52 < 6
    /\ \A s \in Seats : e.TokensAtHome[s] = 0
    /\ e.State # StateFinished
    /\ e.Winner = -1
    /\ e.Rankings = <<>>
    /\ \A i \in 1 .. Len(events) : events[i][1] # "GameOver"

\* C4 witness: the MoveToken that has just put a token on position 57
\* returned without error and the token is not home.
C4_Witness ==
    /\ ret.op = "MoveToken"
    /\ ret.err = NoError
    /\ \E i \in 1 .. Len(events) :
        /\ events[i][1] = "TokenMoved"
        /\ events[i][5] = 57
        /\ ~ e.Tokens[events[i][3][1] + 1][events[i][3][2]].IsHome
        /\ e.Tokens[events[i][3][1] + 1][events[i][3][2]].Position = 57

\* C5: RollDice and MoveToken succeed only while the engine state is Playing,
\* so neither succeeds in Waiting before Start nor once Finished.
C5_OnlyWhilePlaying ==
    [][(RollStep \/ MoveStep) => e.State = StatePlaying]_vars

\* C6: after a successful MoveToken that does not win, the turn is with the
\* next seat, (old turn + 1) mod seat count, when the recorded dice value is
\* not 6, and is unchanged when it is 6.
C6_TurnAdvance ==
    [][(MoveStep /\ e'.State # StateFinished) =>
        IF LastMove.DiceValue # 6
        THEN e'.CurrentTurn = (e.CurrentTurn + 1) % SeatCount
        ELSE e'.CurrentTurn = e.CurrentTurn
      ]_vars

\* C6 witness: a move of a 6 was made, the last successful call moved a token
\* by another value and the turn went to the seat after the mover's.
C6_Witness ==
    /\ ret.op = "MoveToken"
    /\ ret.err = NoError
    /\ Len(e.TurnHistory) >= 2
    /\ \E i \in 1 .. Len(e.TurnHistory) : e.TurnHistory[i].DiceValue = 6
    /\ LET m == e.TurnHistory[Len(e.TurnHistory)]
       IN /\ m.DiceValue # 6
          /\ e.CurrentTurn = (m.TokenMoved[1] + 1) % SeatCount

\* C7: a successful RollDice counts one roll of the player whose turn it is
\* and returns a value in 1..6, which is 6 when that roll is the player's
\* first or its number is a multiple of 5; a RollDice rejected with
\* NotYourTurn counts no roll.
C7_DiceRigging ==
    [][/\ RollStep =>
            LET id == e.Players[e.CurrentTurn + 1].ID
                rollNumber == e'.rollCount[id]
            IN /\ e'.rollCount = [e.rollCount EXCEPT ![id] = @ + 1]
               /\ ret'.op = "RollDice"
               /\ ret'.value \in 1 .. 6
               /\ (rollNumber = 1 \/ rollNumber % 5 = 0) => ret'.value = 6
       /\ (ret'.op = "RollDice" /\ ret'.err = ErrNotYourTurn)
            => e'.rollCount = e.rollCount
      ]_vars

\* C7 witness: the fifth roll of player 1 has just returned 6.
C7_Witness ==
    /\ ret.op = "RollDice"
    /\ ret.err = NoError
    /\ ret.value = 6
    /\ e.rollCount[1] = 5
    /\ e.Players[e.CurrentTurn + 1].ID = 1

\* C8: when a successful RollDice yields a 6 and the roller's counter of
\* consecutive sixes stood at 2, the counter is reset to 0, the turn goes to
\* the next seat and the call returns and reports extra_turn = false with the
\* value 6; a roll other than 6 resets the counter to 0; after every RollDice
\* every counter is in 0..2.
C8_ThirdSix ==
    [][RollStep =>
        LET seat == e.CurrentTurn + 1
            id == e.Players[seat].ID
        IN /\ (ret'.value = 6 /\ e.ConsecutiveSix[seat] = 2) =>
                /\ e'.ConsecutiveSix[seat] = 0
                /\ e'.CurrentTurn = (e.CurrentTurn + 1) % SeatCount
                /\ ret'.extra = FALSE
                /\ \E i \in Fired("DiceRolled") : events'[i] = <<"DiceRolled", id, 6, FALSE>>
           /\ ret'.value # 6 => e'.ConsecutiveSix[seat] = 0
           /\ \A s \in Seats : e'.ConsecutiveSix[s] \in 0 .. 2
      ]_vars

\* C8 witness: a RollDice has just returned 6 without an extra turn.
C8_Witness ==
    /\ ret.op = "RollDice"
    /\ ret.err = NoError
    /\ ret.value = 6
    /\ ret.extra = FALSE
    /\ e.rollCount[1] = 3

\* C9 as stated: a player whose RollDice yields a 6 with which no token can
\* move loses the turn, which goes to the next seat.
C9_SixWithoutMoveLosesTurn ==
    [][(RollStep /\ ret'.value = 6 /\ NoLegalMove(6)) =>
        e'.CurrentTurn = (e.CurrentTurn + 1) % SeatCount
      ]_vars

\* C9 amended: a player whose RollDice yields a 6 with which no token can
\* move keeps the turn and the call reports an extra turn, unless the 6 is
\* the third in a row, which alone passes the turn to the next seat.
C9_SixWithoutMoveKeepsTurn ==
    [][(RollStep /\ ret'.value = 6 /\ NoLegalMove(6)) =>
        IF e.ConsecutiveSix[e.CurrentTurn + 1] + 1 >= 3
        THEN /\ e'.CurrentTurn = (e.CurrentTurn + 1) % SeatCount
             /\ ret'.extra = FALSE
        ELSE /\ e'.CurrentTurn = e.CurrentTurn
             /\ ret'.extra = TRUE
      ]_vars

\* C9 witness: a RollDice has just returned 6 with an extra turn to a player
\* none of whose tokens can move by 6.
C9_Witness ==
    /\ ret.op = "RollDice"
    /\ ret.err = NoError
    /\ ret.value = 6
    /\ ret.extra = TRUE
    /\ e.LastDice = 6
    /\ NoLegalMove(6)

\* C10: in every reachable state no two distinct tokens, of any players,
\* have the same position in 0..51.
C10_OneTokenPerCell ==
    \A s1, s2 \in Seats : \A t1, t2 \in TokenIds :
        (<<s1, t1>> # <<s2, t2>> /\ e.Tokens[s1][t1].Position \in 0 .. 51)
        => e.Tokens[s1][t1].Position # e.Tokens[s2][t2].Position

\* C11: in every reachable state two tokens of the same colour never stand
\* on the same cell, be it a ring position 0..51 or a home-stretch position
\* 52..57.
C11_SameColorApart ==
    \A s \in Seats : \A t1, t2 \in TokenIds :
        (t1 # t2 /\ e.Tokens[s][t1].Position \in 0 .. 57)
        => e.Tokens[s][t1].Position # e.Tokens[s][t2].Position

\* C12: a rejected engine call changes nothing: after a RollDice that failed
\* with NotYourTurn, or a MoveToken that failed with NotYourTurn, an invalid
\* token id or InvalidMove, the tokens, the board, the current turn, the last
\* dice, the roll counters, the consecutive-six counters and the turn history
\* are as before the call and no event is fired.
C12_RejectedCallChangesNothing ==
    [][(/\ ret'.op \in {"RollDice", "MoveToken"}
        /\ ret'.err \in {ErrNotYourTurn, ErrInvalidTokenId, ErrInvalidMove})
       => /\ e'.Tokens = e.Tokens
          /\ e'.Cells = e.Cells
          /\ e'.HomeStretches = e.HomeStretches
          /\ e'.CurrentTurn = e.CurrentTurn
          /\ e'.LastDice = e.LastDice
          /\ e'.rollCount = e.rollCount
          /\ e'.ConsecutiveSix = e.ConsecutiveSix
          /\ e'.TurnHistory = e.TurnHistory
          /\ e'.State = e.State
          /\ events' = <<>>
      ]_vars

\* C12 witness: in a started game with a token on the ring, a MoveToken has
\* just been rejected as InvalidMove.
C12_Witness ==
    /\ ret.op = "MoveToken"
    /\ ret.err = ErrInvalidMove
    /\ e.State = StatePlaying
    /\ e.TurnHistory # <<>>
    /\ \E s \in Seats : e.rollCount[e.Players[s].ID] >= 2

\* C13: once a room is Playing, its current-turn index is a seat of its
\* player list, 0 <= current turn < len(Players), also after players were
\* removed or added during the game.
C13_TurnInRange ==
    \A id \in Created :
        rooms[id].State = StatePlaying
        => rooms[id].CurrentTurn \in 0 .. (Len(rooms[id].Players) - 1)

C18_SeatedRoomsRegistered ==
    \A id \in Created : id \notin registry => rooms[id].players = {}

\* C19: ListRooms returns exactly the registered rooms that are public, have
\* fewer players than MaxPlayers and are Waiting.
C19_ListedRooms ==
    [][ret'.op = "ListRooms" =>
        ret'.room = {id \in registry : /\ ~rooms[id].IsPrivate
                                       /\ Len(rooms[id].Players) < rooms[id].MaxPlayers
                                       /\ rooms[id].State = StateWaiting}
    ]_vars

\* C14: at no time are two goroutines in the part of RollDice, MoveToken,
\* the timeout callback or handleAITurn's roll, move or turn advance that
\* changes the game; a goroutine that is there holds the engine's lock.
C14_MutualExclusion ==
    /\ Cardinality({t \in Threads : pending[t].pc = "mutate"}) <= 1
    /\ \A t \in Threads : pending[t].pc = "mutate" => pending[t].holds

\* C14: handleAITurn advances the turn under the lock while another
\* goroutine waits at its Lock.
C14_Witness ==
    \E t, u \in Threads :
        /\ pending[t].phase = "nextTurn"
        /\ pending[t].pc = "mutate"
        /\ pending[u].pc = "Lock"

\* C15: a timeout callback that runs after a newer timer was armed, that is
\* after the turn it was armed for has ended, leaves the turn where it is,
\* also when the turn has come back to the player it was armed for: here
\* every player has rolled twice, a six and a throw that let no token move.
C15_StaleTimeoutKeepsTurn ==
    [][(/\ ret'.op = "timeout"
        /\ \E task \in Tasks : /\ task.kind = "timeout"
                               /\ CopiesIn(task, goroutines') < CopiesIn(task, goroutines)
        /\ e.turnTimer # NoTimer
        /\ e.TurnHistory = <<>>
        /\ \A id \in DOMAIN e.rollCount : e.rollCount[id] = 2)
       => e'.CurrentTurn = e.CurrentTurn
    ]_vars

\* C16: no callback of the engine is ever blocked in its send on the
\* room's messages channel: with 100 messages queued, or with the room's
\* loop gone, the message is dropped or a failure is reported instead.
C16_NoSenderBlocks ==
    \A id \in Created : ~rooms[id].sending

\* C17: Close on a room that CreateRoom made returns normally and leaves
\* the done channel closed, the signal on which Run returns.
C17_CloseSignalsLoop ==
    [][ret'.op = "Close" =>
        /\ ret'.err = NoError
        /\ rooms'[ret'.room].done = "closed"
    ]_vars

\* C21: every seated player has one of the four colours and no two players
\* of a room have the same; the player a successful AddPlayer seats gets
\* the first of red, blue, green, yellow that no player seated before has.
C21_Colors ==
    [][\A id \in DOMAIN rooms' :
        LET before == IF id \in Created THEN rooms[id].Players ELSE <<>>
            after == rooms'[id].Players
            used == {before[i].Color : i \in 1 .. Len(before)}
        IN /\ \A i \in 1 .. Len(after) : after[i].Color \in Colors
           /\ \A i, j \in 1 .. Len(after) : i # j => after[i].Color # after[j].Color
           /\ (ret'.op = "AddPlayer" /\ ret'.room = id /\ ret'.err = NoError
               /\ Len(after) = Len(before) + 1)
              => \E k \in 1 .. Len(ColorOrder) :
                    /\ after[Len(after)].Color = ColorOrder[k]
                    /\ ColorOrder[k] \notin used
                    /\ \A l \in 1 .. (k - 1) : ColorOrder[l] \in used
    ]_vars

\* C21: a player joined a room whose host had left and was given red, the
\* colour that had become free, behind players of other colours.
C21_Witness ==
    /\ ret.op = "AddPlayer"
    /\ ret.err = NoError
    /\ Len(rooms[ret.room].Players) >= 3
    /\ rooms[ret.room].Players[Len(rooms[ret.room].Players)].ID = ret.player
    /\ rooms[ret.room].Players[Len(rooms[ret.room].Players)].Color = ColorRed

\* C22: the host of a room that seats at least one player is one of the
\* players it seats.
C22_HostIsSeated ==
    \A id \in Created :
        rooms[id].Players # <<>>
        => \E i \in 1 .. Len(rooms[id].Players) : rooms[id].Players[i].ID = rooms[id].HostID

\* C23: Start returns "game already started" when the state is not
\* Waiting and "not enough players" when fewer than 2 players are seated,
\* and then changes nothing; otherwise the state becomes Playing, the
\* current turn is a seat of the list and one turn-changed event is fired,
\* for the player of that seat.  The state only moves from Waiting to
\* Playing and from Playing to Finished.
C23_Start ==
    [][/\ (ret'.op = "Start" /\ ret'.err # NoError)
          => /\ e'.Tokens = e.Tokens
             /\ e'.Cells = e.Cells
             /\ e'.HomeStretches = e.HomeStretches
             /\ e'.CurrentTurn = e.CurrentTurn
             /\ e'.LastDice = e.LastDice
             /\ e'.rollCount = e.rollCount
             /\ e'.ConsecutiveSix = e.ConsecutiveSix
             /\ e'.TurnHistory = e.TurnHistory
             /\ e'.State = e.State
             /\ events' = <<>>
       /\ (ret'.op = "Start" /\ ret' # ret)
          => IF e.State # StateWaiting THEN ret'.err = ErrAlreadyStarted
             ELSE IF SeatCount < 2 THEN ret'.err = ErrNotEnoughPlayers
             ELSE /\ ret'.err = NoError
                  /\ e'.State = StatePlaying
                  /\ e'.CurrentTurn \in 0 .. (SeatCount - 1)
                  /\ events' = <<<<"TurnChanged", e.Players[e'.CurrentTurn + 1].ID>>>>
       /\ \/ e'.State = e.State
          \/ e.State = StateWaiting /\ e'.State = StatePlaying
          \/ e.State = StatePlaying /\ e'.State = StateFinished
      ]_vars

\* C23 witness: Start was refused for an engine with one player, whose
\* player had rolled the dice before.
C23_Witness ==
    /\ ret.op = "Start"
    /\ ret.err = ErrNotEnoughPlayers
    /\ SeatCount = 1
    /\ e.State = StateWaiting
    /\ e.rollCount[1] > 0

\* C24: CanStart returns true exactly when the room seats at least 2
\* players and the connection of every seated player is ready;
\* SetPlayerReady for an id that is not seated returns "player not in room"
\* and, like every SetPlayerReady that fails, changes nothing.
C24_Ready ==
    [][/\ ret'.op = "CanStart"
          => LET rm == rooms'[ret'.room]
             IN ret'.value <=> /\ Len(rm.Players) >= 2
                               /\ \A i \in 1 .. Len(rm.Players) : rm.Players[i].ID \in rm.ready
       /\ ret'.op = "SetPlayerReady"
          => LET rm == rooms[ret'.room]
                 seated == \E i \in 1 .. Len(rm.Players) : rm.Players[i].ID = ret'.player
             IN /\ ~seated => ret'.err = ErrPlayerNotInRoom
                /\ seated => ret'.err = NoError
                /\ ret'.err # NoError => rooms' = rooms
      ]_vars

\* C24 witness: CanStart returned true for a room of three players.
C24_Witness ==
    /\ ret.op = "CanStart"
    /\ ret.value
    /\ Len(rooms[ret.room].Players) = 3

\* C25: CreateRoom never returns a room whose id a registered room has: it
\* adds one room to the registry and takes none out of it.
C25_FreshRoomId ==
    [][Len(rooms') = Len(rooms) + 1
       => /\ \A i \in registry : rooms[i].ID # rooms'[Len(rooms')].ID
          /\ registry' = registry \cup {Len(rooms')}
          /\ Cardinality(registry') = Cardinality(registry) + 1
      ]_vars

\* The message a protocol call was applied to.
Received == pending[1]

\* A string with nothing but white space in it.
Blank(s) == TrimSpace(s) = <<>>

\* C26: ValidateMessage fails on a message tagged CREATE_ROOM whose room name
\* is blank, whose max_players is outside 2..4 or whose username is blank, and
\* on a message tagged JOIN_ROOM whose room id or username is blank.
C26_WireMessagesChecked ==
    ret.op = "ValidateMessage" =>
        /\ Received.Type = MsgCreateRoom =>
              LET data == ExtractPayload(Received.Payload, "CreateRoomPayload").data
              IN  \/ Blank(data["name"])
                  \/ data["max_players"] \notin 2 .. 4
                  \/ Blank(data["username"])
                  => ret.err # NoError
        /\ Received.Type = MsgJoinRoom =>
              LET data == ExtractPayload(Received.Payload, "JoinRoomPayload").data
              IN  Blank(data["room_id"]) \/ Blank(data["username"])
                  => ret.err # NoError

\* C27: the connect check accepts a username exactly when its length after
\* trimming the white space around it is within 3..20.
C27_ConnectTrimmedLength ==
    /\ ret.op = "ValidateMessage"
    /\ Received.Type = "connect"
    /\ ExtractPayload(Received.Payload, "ConnectPayload").err = NoError
    => LET username == ExtractPayload(Received.Payload, "ConnectPayload").data["username"]
       IN  ret.err = NoError <=> Len(TrimSpace(username)) \in 3 .. 20

\* C28: encoding and then decoding a valid message succeeds and yields a
\* message with the same type, payload, time, player id and room id.
C28_RoundTrip ==
    ret.op = "DecodeMessage" /\ ValidateMessage(Received) = NoError
    => /\ ret.err = NoError
       /\ ret.value.Type = Received.Type
       /\ ret.value.Payload = Received.Payload
       /\ ret.value.Timestamp.wall = Received.Timestamp.wall
       /\ ret.value.PlayerID = Received.PlayerID
       /\ ret.value.RoomID = Received.RoomID

\* A step in which MoveToken succeeded: the only call that fires a
\* token-moved event and changes a token.
MoveTokenSucceeds == Fired("TokenMoved") # {} /\ e'.Tokens # e.Tokens

C30_SafeFlag ==
    \A s \in Seats, t \in TokenIds :
        e.Tokens[s][t].IsSafe
        <=> \/ e.Tokens[s][t].Position = -1
            \/ e.Tokens[s][t].Position \in 52 .. 57
            \/ e.Tokens[s][t].Position \in SafePositions

\* The AI player's colour and tokens on the board SelectToken was called on.
AIColor == e.Players[AISeat + 1].Color

\* The distance between two cells of the ring.
RingDistance(p, q) == IF abs(p - q) <= 26 THEN abs(p - q) ELSE 52 - abs(p - q)

\* The score of moving the AI's token t by d, as the hard policy is described.
HardScore(t, d) ==
    LET token == e.Tokens[AISeat + 1][t]
        dest == AI_calculateNewPosition(token, d, AIColor)
        onRing == dest >= 0 /\ dest < 52
        opponentAt(p) == e.Cells[p] # NilToken /\ TokenColor(e, e.Cells[p]) # AIColor
    IN (IF onRing /\ opponentAt(dest) /\ dest \notin SafePositions THEN 1000 ELSE 0)
       + (IF token.Position = -1 THEN 500 ELSE 0)
       + (IF dest >= 52 THEN 800 ELSE 0)
       + (IF dest \in SafePositions THEN 300 ELSE 0)
       + 10 * dest
       - (IF /\ onRing
             /\ ~ \E o \in TokenIds \ {t} :
                    /\ e.Tokens[AISeat + 1][o].Position \in 0 .. 51
                    /\ RingDistance(dest, e.Tokens[AISeat + 1][o].Position) <= 6
          THEN 200 ELSE 0)
       - (IF onRing /\ \E i \in 1 .. 6 : opponentAt((dest - i + 52) % 52)
          THEN 400 ELSE 0)
       + (IF onRing /\ \E i \in 1 .. 6 :
                          /\ opponentAt((dest + i) % 52)
                          /\ Token(e, e.Cells[(dest + i) % 52]).Position > 45
          THEN 600 ELSE 0)

\* C31: the hard policy returns the legal token of maximal score, the first
\* of them in token order: +1000 capture, +500 base exit, +800 home stretch,
\* +300 marked safe cell, +10 per cell of the destination, -200 isolated,
\* -400 opponent within 6 cells behind, +600 blocking an opponent beyond 45.
C31_HardPolicy ==
    /\ ret.op = "SelectToken"
    /\ e.Players[AISeat + 1].AILevel = "hard"
    /\ ret.token # -1
    => LET legal == getValidTokens(e, AISeat, ret.value)
           tokens == {legal[i] : i \in 1 .. Len(legal)}
       IN /\ ret.token \in tokens
          /\ \A t \in tokens : HardScore(t, ret.value) <= HardScore(ret.token, ret.value)
          /\ \A t \in tokens :
                t < ret.token => HardScore(t, ret.value) < HardScore(ret.token, ret.value)

\* C37: a token an AI policy selects is one the engine's legality check
\* accepts, and the AI selects no token exactly when the engine finds no legal
\* move.
C37_SameLegalTokens ==
    ret.op = "SelectToken"
    => /\ ret.token # -1 =>
            canMoveToken(e, e.Tokens[AISeat + 1][ret.token], ret.value, AIColor)
       /\ ret.token = -1 <=> ~ hasValidMove(e, AISeat, ret.value)

\* The successful MoveToken calls of a player so far.
MovesOf(id) == Len(SelectSeq(e.TurnHistory, LAMBDA a : a.PlayerID = id))

\* C32: a MoveToken succeeds only on a dice value that a successful RollDice
\* of the same player recorded since that player's previous successful
\* MoveToken: a player who got the first turn of the game (no other player
\* has rolled) has not moved more often than rolled.
C32_MoveUsesFreshRoll ==
    \A id \in DOMAIN e.rollCount :
        /\ e.State = StatePlaying
        /\ id # e.Players[1].ID
        /\ \A other \in DOMAIN e.rollCount \ {id} : e.rollCount[other] = 0
        => MovesOf(id) <= e.rollCount[id]

\* The last call was a successful RollDice of the current player that left
\* the turn and a legal move with that player.
AwaitingMove ==
    /\ e.State = StatePlaying
    /\ ret.op = "RollDice"
    /\ ret.err = NoError
    /\ \E i \in 1 .. Len(events) :
          events[i][1] = "DiceRolled" /\ events[i][2] = e.Players[e.CurrentTurn + 1].ID
    /\ ~ \E i \in 1 .. Len(events) : events[i][1] = "TurnChanged"
    /\ hasValidMove(e, e.CurrentTurn, e.LastDice)

\* C33: while the current player has a recorded dice value with a legal move
\* pending, no RollDice succeeds.
C33_NoSecondRoll ==
    [][AwaitingMove => ~ RollStep]_vars

\* The game is on and an AI player has its first turn, before any roll.
AITurn ==
    /\ e.State = StatePlaying
    /\ e.Players[e.CurrentTurn + 1].IsAI
    /\ Used(e) = 0

\* C34: whenever the current player is an AI and the game is on, the turn
\* passes to another seat or the game ends in the end; checked from the
\* first turn of the game.
C34_AIProgress ==
    AITurn ~> (e.State # StatePlaying \/ ~ e.Players[e.CurrentTurn + 1].IsAI)

\* The AI tasks that end in a step: handleAITurn took its last branch.
Ended == {task \in Tasks : task.kind = "ai" /\ task.pc = "commit"
                           /\ task \notin BagToSet(goroutines')}

\* C35: when the roll of an AI player leaves it with no token selected and no
\* extra turn, the turn advances by one seat with one turn-changed event: once
\* RollDice has passed the turn to the next seat, the end of the AI's task
\* does not pass it on again.
C35_OneSeatAfterAI ==
    [][\A task \in Ended :
          /\ task.tok = -1
          /\ ~ task.extra
          /\ task.dice \in DiceMin .. DiceMax
          /\ e.CurrentTurn = (task.seat + 1) % Len(e.Players)
          => /\ e'.CurrentTurn = e.CurrentTurn
             /\ Fired("TurnChanged") = {}
      ]_vars

\* C36: the AI task reads the board for its token selection only while no
\* other goroutine is in a part of a call that changes the game.
C36_SelectionReadsAlone ==
    [][\A t \in Threads :
          pending[t].phase = "SelectToken" /\ pending'[t] # pending[t]
          => \A u \in Threads \ {t} : pending[u].pc # "mutate"
      ]_vars

\* C38: while the game is on and the current player is not an AI, the turn
\* passes on in the end whether or not the player calls, also when the player
\* holds an extra turn after rolling a 6 and moving.
C38_HumanTurnEnds ==
    \A seat \in 0 .. 1 :
        (e.State = StatePlaying /\ e.CurrentTurn = seat)
        ~> (e.State # StatePlaying \/ e.CurrentTurn # seat)

\* The timeout has ended the turn of a player who had rolled a 6 and moved.
C38_Witness ==
    /\ e.State = StatePlaying
    /\ ret.op = "timeout"
    /\ \E i \in 1 .. Len(events) : events[i][1] = "TurnChanged"
    /\ e.TurnHistory # <<>>
    /\ LET m == e.TurnHistory[Len(e.TurnHistory)]
       IN /\ m.DiceValue = RollForExtraTurn
          /\ m.PlayerID # e.Players[e.CurrentTurn + 1].ID

\* C39: whenever the turn of a running game passes away from a player, by a
\* move, an automatic advance, a forfeiture, a timeout or an AI advance, the
\* consecutive-six counter of that player is 0 afterwards.
C39_SixesClearedOnPass ==
    [][(e.State = StatePlaying /\ e'.CurrentTurn # e.CurrentTurn)
          => e'.ConsecutiveSix[e.CurrentTurn + 1] = 0
      ]_vars

\* C40: in every reachable state the board and the tokens agree in both
\* directions: a token with ring position p in 0..51 is the token that shared
\* cell p references, a token with position 52+i is the token that cell i of
\* the home stretch of its colour references, and every cell that references
\* a token references one standing on that cell.  (A token that leaves a cell
\* then clears only its own reference.)
C40_BoardMatchesTokens ==
    /\ \A s \in Seats : \A t \in TokenIds :
          LET pos == e.Tokens[s][t].Position
          IN /\ pos \in 0 .. 51 => e.Cells[pos] = <<s - 1, t>>
             /\ pos \in 52 .. 57 =>
                   e.HomeStretches[e.Players[s].Color][pos - 52] = <<s - 1, t>>
    /\ \A p \in 0 .. 51 :
          e.Cells[p] # NilToken => Token(e, e.Cells[p]).Position = p
    /\ \A c \in Colors : \A i \in 0 .. 5 :
          e.HomeStretches[c][i] # NilToken =>
              /\ TokenColor(e, e.HomeStretches[c][i]) = c
              /\ Token(e, e.HomeStretches[c][i]).Position = 52 + i

====
